---- MODULE Spec2Model ----
(***************************************************************************)
(* gitdeck: the session state machine of internal/tui/app.go (AppModel and *)
(* its Update handler), the list models it drives, the commands it issues  *)
(* and their result messages, and the RefreshingProvider decorator of      *)
(* internal/provider/refreshing.go that sits between every command and the *)
(* CI provider.                                                            *)
(*                                                                         *)
(* Strings of the program that are only compared for equality are kept as  *)
(* strings; identifiers (pipeline, job, step, device code) are naturals    *)
(* with 0 standing for the empty string.                                   *)
(***************************************************************************)
EXTENDS Integers, Sequences, FiniteSets, TLC

\* ------------------------------------------------------------------ bounds
MaxPipelines == 2
MaxJobs == 2
MaxSteps == 2
MaxFlows == 1
MaxCodes == 1
MaxLogLines == 25
MaxPolls == 3
MaxExpiry == 11
RequestSeconds == 1

\* --------------------------------------------------------------- constants
TickRunningSeconds == 5
TickIdleSeconds == 30
MinVisibleLogLines == 10
SlowDownSeconds == 5
ProviderName == "gitlab"

VARIABLES
    m,               \* the AppModel value held by the event loop
    listInFlight,    \* a ListPipelines command is running
    detailInFlight,  \* pipeline IDs of the GetPipeline commands running
    actionInFlight,  \* actions ("rerun"/"cancel") of the commands running
    logsInFlight,    \* a GetJobLogs command is running
    flow,            \* the device-authorization commands running, per slot
    timers,          \* the timers armed that have not fired yet
    rp,              \* one call through the RefreshingProvider decorator
    poll             \* one call of PollToken

vars ==
    <<m, listInFlight, detailInFlight, actionInFlight, logsInFlight, flow, timers, rp,
      poll>>

appVars == <<m, listInFlight, detailInFlight, actionInFlight, logsInFlight, flow, timers>>

\* ------------------------------------------------------------ domain data
PipelineIDs == 1..MaxPipelines
Statuses == {"running", "success"}

ZeroPipeline == [ID |-> 0, Status |-> ""]
ZeroJob == [ID |-> 0, Steps |-> <<>>]

JobID(pid, i) == pid * 10 + i
StepName(jid, i) == jid * 10 + i
StepsOf(jid, k) == [i \in 1..k |-> StepName(jid, i)]

Injective(s) == \A i, j \in DOMAIN s : s[i] = s[j] => i = j

IDSeqs == UNION { { s \in [1..n -> PipelineIDs] : Injective(s) } : n \in 0..MaxPipelines }

\* The pipeline lists a ListPipelines call can return: distinct IDs, any status.
PipelineLists ==
    UNION { { [i \in DOMAIN ids |-> [ID |-> ids[i], Status |-> st[i]]] :
                st \in [DOMAIN ids -> Statuses] } : ids \in IDSeqs }

\* ------------------------------------------------------------------ errors
Nil == [kind |-> "nil", provider |-> ""]
TransientErr == [kind |-> "transient", provider |-> ""]
ErrUnauthorized == [kind |-> "unauthorized", provider |-> ""]
AuthExpiredError(p) == [kind |-> "auth_expired", provider |-> p]
ReAuthFailed == [kind |-> "reauth_failed", provider |-> ""]
SessionExpired(p) == [kind |-> "session_expired", provider |-> p]

\* errors.Is(err, domain.ErrUnauthorized)
IsUnauthorized(e) == e.kind = "unauthorized"
\* errors.As(err, &authErr) with authErr *provider.AuthExpiredError
IsAuthExpired(e) == e.kind = "auth_expired"

\* ------------------------------------------- provider.RefreshingProvider
Result(res, err, calls) == [res |-> res, err |-> err, calls |-> calls]
Call(fn, token) == [fn |-> fn, token |-> token]

\* A handler that retries without handing the new token to the adapter.
handleUnauthorizedNoUpdate(provider, refresh, retry) ==
    IF refresh.err # Nil
    THEN [err |-> AuthExpiredError(provider), calls |-> <<Call("refreshFn", "")>>]
    ELSE [err |-> retry.err, calls |-> <<Call("refreshFn", ""), Call("inner", "")>>]

\* handleUnauthorized: refresh is what refreshFn returns ([token, err]),
\* retry what the retry closure returns ([res, err]).
handleUnauthorized(provider, refresh, retry) ==
    IF refresh.err # Nil
    THEN [err |-> AuthExpiredError(provider), calls |-> <<Call("refreshFn", "")>>]
    ELSE [err |-> retry.err,
          calls |-> <<Call("refreshFn", ""), Call("updateToken", refresh.token),
                      Call("inner", "")>>]

\* A decorator that takes every error of the first call for an expired token.
RefreshingPayloadCallAnyError(provider, zero, first, refresh, retry) ==
    IF first.err # Nil
    THEN LET h == handleUnauthorized(provider, refresh, retry) IN
         IF h.err # Nil
         THEN Result(zero, h.err, <<Call("inner", "")>> \o h.calls)
         ELSE Result(retry.res, Nil, <<Call("inner", "")>> \o h.calls)
    ELSE Result(first.res, first.err, <<Call("inner", "")>>)

\* ListPipelines, GetPipeline and GetJobLogs return the zero value of their
\* result type next to an error of the retry path.
RefreshingPayloadCall(provider, zero, first, refresh, retry) ==
    IF first.err # Nil /\ IsUnauthorized(first.err)
    THEN LET h == handleUnauthorized(provider, refresh, retry) IN
         IF h.err # Nil
         THEN Result(zero, h.err, <<Call("inner", "")>> \o h.calls)
         ELSE Result(retry.res, Nil, <<Call("inner", "")>> \o h.calls)
    ELSE Result(first.res, first.err, <<Call("inner", "")>>)

RefreshingListPipelines(provider, first, refresh, retry) ==
    RefreshingPayloadCall(provider, <<>>, first, refresh, retry)

RefreshingGetPipeline(provider, first, refresh, retry) ==
    RefreshingPayloadCall(provider, [ID |-> 0, Status |-> "", Jobs |-> <<>>],
                          first, refresh, retry)

RefreshingGetJobLogs(provider, first, refresh, retry) ==
    RefreshingPayloadCall(provider, 0, first, refresh, retry)

\* An action call that hands the first error back when the refresh fails.
RefreshingActionCallKeepsError(provider, first, refresh, retry) ==
    IF first.err # Nil /\ IsUnauthorized(first.err)
    THEN LET h == handleUnauthorized(provider, refresh, retry) IN
         Result(0, IF refresh.err # Nil THEN first.err ELSE h.err,
                <<Call("inner", "")>> \o h.calls)
    ELSE Result(0, first.err, <<Call("inner", "")>>)

\* RerunPipeline and CancelPipeline return the error alone.
RefreshingActionCall(provider, first, refresh, retry) ==
    IF first.err # Nil /\ IsUnauthorized(first.err)
    THEN LET h == handleUnauthorized(provider, refresh, retry) IN
         Result(0, h.err, <<Call("inner", "")>> \o h.calls)
    ELSE Result(0, first.err, <<Call("inner", "")>>)

RefreshingRerunPipeline(provider, first, refresh, retry) ==
    RefreshingActionCall(provider, first, refresh, retry)

RefreshingCancelPipeline(provider, first, refresh, retry) ==
    RefreshingActionCall(provider, first, refresh, retry)

\* What the wrapped adapter and refreshFn can answer.
InnerErrs == {Nil, TransientErr, ErrUnauthorized}
RefreshAnswers == {[token |-> "new-token", err |-> Nil], [token |-> "", err |-> TransientErr]}
InnerAnswers(payloads, zero) ==
    { [res |-> p, err |-> Nil] : p \in payloads } \cup
    { [res |-> zero, err |-> e] : e \in InnerErrs \ {Nil} }

\* The errors a command of the state machine can receive from the provider
\* it was given (cmd/gitdeck/main.go wraps both adapters in the decorator).
ProviderErrs ==
    { RefreshingActionCall(ProviderName, [res |-> 0, err |-> e1], r,
                           [res |-> 0, err |-> e2]).err :
        e1 \in InnerErrs, r \in RefreshAnswers, e2 \in InnerErrs }

\* ------------------------------------------------------- tui list models
NewPipelineListModel(pipelines) == [pipelines |-> pipelines, cursor |-> 0]
NewJobDetailModel(jobs) == [jobs |-> jobs, cursor |-> 0]
NewStepListModel(steps) == [steps |-> steps, cursor |-> 0]

PipelineListMoveDown(l) ==
    IF l.cursor < Len(l.pipelines) - 1 THEN [l EXCEPT !.cursor = @ + 1] ELSE l
PipelineListMoveUp(l) ==
    IF l.cursor > 0 THEN [l EXCEPT !.cursor = @ - 1] ELSE l
\* A move down that checks the cursor against the length, not the last index.
JobDetailMoveDownOffByOne(d) ==
    IF d.cursor < Len(d.jobs) THEN [d EXCEPT !.cursor = @ + 1] ELSE d

JobDetailMoveDown(d) ==
    IF d.cursor < Len(d.jobs) - 1 THEN [d EXCEPT !.cursor = @ + 1] ELSE d
JobDetailMoveUp(d) ==
    IF d.cursor > 0 THEN [d EXCEPT !.cursor = @ - 1] ELSE d
StepListMoveDown(s) ==
    IF s.cursor < Len(s.steps) - 1 THEN [s EXCEPT !.cursor = @ + 1] ELSE s
StepListMoveUp(s) ==
    IF s.cursor > 0 THEN [s EXCEPT !.cursor = @ - 1] ELSE s

\* Go slices are indexed from 0, sequences from 1.
At(seq, i) == seq[i + 1]

SelectedPipeline(l) ==
    IF Len(l.pipelines) = 0 THEN ZeroPipeline ELSE At(l.pipelines, l.cursor)

\* The index of the first pipeline with the given ID, or -1.
IndexOfID(pipelines, id) ==
    IF \E i \in DOMAIN pipelines : pipelines[i].ID = id
    THEN (CHOOSE i \in DOMAIN pipelines :
            /\ pipelines[i].ID = id
            /\ \A j \in DOMAIN pipelines : pipelines[j].ID = id => i <= j) - 1
    ELSE -1

\* UpdatePipelines replaces the list and keeps the cursor on the pipeline that
\* was selected, by ID; the cursor is 0 when that pipeline is gone.
UpdatePipelines(l, pipelines) ==
    LET i == IndexOfID(pipelines, SelectedPipeline(l).ID) IN
    [pipelines |-> pipelines, cursor |-> IF i >= 0 THEN i ELSE 0]

anyRunning(pipelines) == \E i \in DOMAIN pipelines : pipelines[i].Status = "running"

\* ------------------------------------------------------ tui.AppModel
Views == {"Pipelines", "Jobs", "Steps", "Logs", "ReAuth"}
Keys == {"down", "up", "enter", "esc", "r", "x", "y", "l", "q", "ctrl+c",
         "ctrl+r", "pgup", "pgdown", "g", "G", "n"}

ZeroCode == 0

\* main.go sets the three re-auth callbacks before the program starts.
OnRequestCodeSet == TRUE
OnTokenRefreshedSet == TRUE

NewAppModel ==
    [view |-> "Pipelines",
     list |-> NewPipelineListModel(<<>>),
     selectedPipeline |-> ZeroPipeline,
     detail |-> NewJobDetailModel(<<>>),
     selectedJob |-> ZeroJob,
     steps |-> NewStepListModel(<<>>),
     loading |-> TRUE,
     err |-> Nil,
     height |-> 0,
     confirmAction |-> "",
     logLoading |-> FALSE,
     logContent |-> 0,
     logOffset |-> 0,
     logReturnView |-> "Pipelines",
     reAuthProvider |-> "",
     reAuthCode |-> ZeroCode]

\* Commands (tea.Cmd values), named after the call they make.
Cmd(kind, id, provider) == [kind |-> kind, id |-> id, provider |-> provider]
loadPipelines == Cmd("ListPipelines", 0, "")
loadPipelineDetail(id) == Cmd("GetPipeline", id, "")
rerunPipeline(id) == Cmd("RerunPipeline", id, "")
cancelPipeline(id) == Cmd("CancelPipeline", id, "")
loadJobLogs(job) == Cmd("GetJobLogs", job.ID, "")
requestDeviceCode(a) == Cmd("RequestCode", 0, a.reAuthProvider)
pollReAuthToken(a) == Cmd("PollToken", a.reAuthCode, a.reAuthProvider)
tickEvery(seconds) == Cmd("Tick", seconds, "")
Quit == Cmd("Quit", 0, "")

\* What Update returns: the next model, the commands, and the calls it made
\* to OnTokenRefreshed on the way.
Ret(a, cs) == [m |-> a, cmds |-> cs, cb |-> <<>>]

\* The auth-expired branch shared by the list, detail and action handlers.
EnterReAuth(a, e) ==
    LET b == [a EXCEPT !.reAuthProvider = e.provider, !.view = "ReAuth", !.err = Nil]
    IN Ret(b, <<requestDeviceCode(b)>>)

\* An error branch that clears the job panel next to setting the banner.
ErrorResultClearsDetail(a, e) ==
    IF IsAuthExpired(e) /\ OnRequestCodeSet
    THEN EnterReAuth(a, e)
    ELSE Ret([a EXCEPT !.err = e, !.detail = NewJobDetailModel(<<>>)], <<>>)

ErrorResult(a, e) ==
    IF IsAuthExpired(e) /\ OnRequestCodeSet
    THEN EnterReAuth(a, e)
    ELSE Ret([a EXCEPT !.err = e], <<>>)

\* The selected-pipeline snapshot after a refresh of a non-empty list: the
\* first pipeline of the new list with the snapshot's ID, if there is one.
RefreshSelected(sel, pipelines) ==
    LET i == IndexOfID(pipelines, sel.ID) IN
    IF i >= 0 THEN At(pipelines, i) ELSE sel

\* A refresh that forgets the selection.
ListAfterLoadReset(l, pipelines) == NewPipelineListModel(pipelines)

ListAfterLoad(l, pipelines) ==
    IF Len(l.pipelines) = 0
    THEN NewPipelineListModel(pipelines)
    ELSE UpdatePipelines(l, pipelines)

SelectedAfterLoad(a, pipelines) ==
    IF Len(a.list.pipelines) = 0
    THEN IF Len(pipelines) > 0 THEN pipelines[1] ELSE a.selectedPipeline
    ELSE RefreshSelected(a.selectedPipeline, pipelines)

OnPipelinesLoaded(a0, msg) ==
    LET a == [a0 EXCEPT !.loading = FALSE] IN
    IF msg.Err # Nil
    THEN ErrorResult(a, msg.Err)
    ELSE Ret([a EXCEPT !.list = ListAfterLoad(a.list, msg.Pipelines),
                       !.selectedPipeline = SelectedAfterLoad(a, msg.Pipelines)],
             <<>>)

\* A job panel that keeps its cursor over the new job list.
DetailAfterLoadKeepsCursor(a, pipeline) ==
    [jobs |-> pipeline.Jobs, cursor |-> a.detail.cursor]

DetailAfterLoad(a, pipeline) == NewJobDetailModel(pipeline.Jobs)

\* A detail handler that also takes the selected-pipeline snapshot from the
\* detail result.
OnPipelineDetailSelects(a, msg) ==
    IF msg.Err # Nil
    THEN ErrorResult(a, msg.Err)
    ELSE Ret([a EXCEPT !.detail = DetailAfterLoad(a, msg.Pipeline),
                       !.selectedPipeline = [ID |-> msg.Pipeline.ID,
                                             Status |-> msg.Pipeline.Status]], <<>>)

OnPipelineDetail(a, msg) ==
    IF msg.Err # Nil
    THEN ErrorResult(a, msg.Err)
    ELSE Ret([a EXCEPT !.detail = DetailAfterLoad(a, msg.Pipeline)], <<>>)

\* An interval that looks at the first pipeline only.
TickIntervalFirstOnly(pipelines) ==
    IF Len(pipelines) > 0 /\ pipelines[1].Status = "running"
    THEN TickRunningSeconds ELSE TickIdleSeconds

TickInterval(pipelines) ==
    IF anyRunning(pipelines) THEN TickRunningSeconds ELSE TickIdleSeconds

\* A tick that pauses the refresh while the ReAuth view is up.
OnTickPausedInReAuth(a) ==
    IF a.view = "ReAuth" THEN Ret(a, <<>>)
    ELSE Ret(a, <<loadPipelines, tickEvery(TickInterval(a.list.pipelines))>> \o
                (IF a.selectedPipeline.Status = "running" /\ a.selectedPipeline.ID # 0
                 THEN <<loadPipelineDetail(a.selectedPipeline.ID)>>
                 ELSE <<>>))

OnTick(a) ==
    Ret(a, <<loadPipelines, tickEvery(TickInterval(a.list.pipelines))>> \o
           (IF a.selectedPipeline.Status = "running" /\ a.selectedPipeline.ID # 0
            THEN <<loadPipelineDetail(a.selectedPipeline.ID)>>
            ELSE <<>>))

OnActionResult(a, msg) ==
    IF msg.Err # Nil
    THEN ErrorResult(a, msg.Err)
    ELSE Ret([a EXCEPT !.loading = TRUE], <<loadPipelines>>)

\* A log result that always returns to the Jobs view.
OnLogsLoadedReturnsToJobs(a0, msg) ==
    LET a == [a0 EXCEPT !.logLoading = FALSE] IN
    IF msg.Err # Nil
    THEN Ret(a, <<>>)
    ELSE Ret([a EXCEPT !.logReturnView = "Jobs", !.view = "Logs",
                       !.logContent = msg.Content, !.logOffset = 0],
             <<>>)

\* A log result that leaves the loading flag set when the fetch failed.
OnLogsLoadedKeepsLoadingOnError(a0, msg) ==
    IF msg.Err # Nil
    THEN Ret(a0, <<>>)
    ELSE Ret([a0 EXCEPT !.logLoading = FALSE, !.logReturnView = a0.view,
                        !.view = "Logs", !.logContent = msg.Content,
                        !.logOffset = 0],
             <<>>)

OnLogsLoaded(a0, msg) ==
    LET a == [a0 EXCEPT !.logLoading = FALSE] IN
    IF msg.Err # Nil
    THEN Ret(a, <<>>)
    ELSE Ret([a EXCEPT !.logReturnView = a.view, !.view = "Logs",
                       !.logContent = msg.Content, !.logOffset = 0],
             <<>>)

\* A device-code failure that asks for another code.
OnDeviceCodeRetries(a, msg) ==
    IF msg.Err # Nil
    THEN Ret(a, <<requestDeviceCode(a)>>)
    ELSE LET b == [a EXCEPT !.reAuthCode = msg.Code] IN
         Ret(b, <<pollReAuthToken(b)>>)

OnDeviceCode(a, msg) ==
    IF msg.Err # Nil
    THEN Ret([a EXCEPT !.err = ReAuthFailed, !.view = "Pipelines"], <<>>)
    ELSE LET b == [a EXCEPT !.reAuthCode = msg.Code] IN
         Ret(b, <<pollReAuthToken(b)>>)

\* A completion that does not hand the token to OnTokenRefreshed.
OnReAuthCompleteNoCallback(a, msg) ==
    IF msg.Err # Nil
    THEN Ret([a EXCEPT !.err = ReAuthFailed, !.view = "Pipelines"], <<>>)
    ELSE Ret([a EXCEPT !.reAuthProvider = "", !.reAuthCode = ZeroCode,
                       !.view = "Pipelines", !.loading = TRUE, !.err = Nil],
             <<loadPipelines>>)

OnReAuthComplete(a, msg) ==
    IF msg.Err # Nil
    THEN Ret([a EXCEPT !.err = ReAuthFailed, !.view = "Pipelines"], <<>>)
    ELSE [m |-> [a EXCEPT !.reAuthProvider = "", !.reAuthCode = ZeroCode,
                          !.view = "Pipelines", !.loading = TRUE, !.err = Nil],
          cmds |-> <<loadPipelines>>,
          cb |-> IF OnTokenRefreshedSet
                 THEN <<[provider |-> a.reAuthProvider, token |-> msg.Token]>>
                 ELSE <<>>]

OnWindowSize(a, msg) == Ret([a EXCEPT !.height = msg.Height], <<>>)

\* ---------------------------------------------------------- key handling
IsQuitKey(k) == k \in {"q", "ctrl+c"}

\* A confirm that dispatches and leaves the overlay open.
ConfirmYesKeepsOverlay(a) ==
    IF a.selectedPipeline.ID = 0
    THEN Ret([a EXCEPT !.confirmAction = ""], <<>>)
    ELSE Ret(a, IF a.confirmAction = "rerun"
                THEN <<rerunPipeline(a.selectedPipeline.ID)>>
                ELSE <<cancelPipeline(a.selectedPipeline.ID)>>)

\* The keys read while confirmAction is set.
ConfirmYes(a) ==
    IF a.selectedPipeline.ID = 0
    THEN Ret([a EXCEPT !.confirmAction = ""], <<>>)
    ELSE Ret([a EXCEPT !.confirmAction = ""],
             IF a.confirmAction = "rerun"
             THEN <<rerunPipeline(a.selectedPipeline.ID)>>
             ELSE <<cancelPipeline(a.selectedPipeline.ID)>>)

\* An overlay that swallows the other keys without closing.
ConfirmOtherKeepsOverlay(a, k) == Ret(a, <<>>)

ConfirmOther(a, k) == Ret([a EXCEPT !.confirmAction = ""], <<>>)

OnConfirmKey(a, k) ==
    IF k = "y" THEN ConfirmYes(a)
    ELSE IF IsQuitKey(k) THEN Ret(a, <<Quit>>)
    ELSE ConfirmOther(a, k)

\* An open key that does not look at the length of the list.
updatePipelinesOpensEmpty(a, k) ==
    CASE k = "down" ->
           LET l == PipelineListMoveDown(a.list) IN
           Ret([a EXCEPT !.list = l, !.selectedPipeline = SelectedPipeline(l)], <<>>)
      [] k = "up" ->
           LET l == PipelineListMoveUp(a.list) IN
           Ret([a EXCEPT !.list = l, !.selectedPipeline = SelectedPipeline(l)], <<>>)
      [] k = "enter" ->
           LET b == [a EXCEPT !.selectedPipeline = SelectedPipeline(a.list),
                              !.view = "Jobs"]
           IN Ret(b, <<loadPipelineDetail(b.selectedPipeline.ID)>>)
      [] k = "r" -> Ret([a EXCEPT !.confirmAction = "rerun"], <<>>)
      [] k = "x" -> Ret([a EXCEPT !.confirmAction = "cancel"], <<>>)
      [] OTHER -> Ret(a, <<>>)

updatePipelines(a, k) ==
    CASE k = "down" ->
           LET l == PipelineListMoveDown(a.list) IN
           Ret([a EXCEPT !.list = l, !.selectedPipeline = SelectedPipeline(l)], <<>>)
      [] k = "up" ->
           LET l == PipelineListMoveUp(a.list) IN
           Ret([a EXCEPT !.list = l, !.selectedPipeline = SelectedPipeline(l)], <<>>)
      [] k = "enter" ->
           IF Len(a.list.pipelines) > 0
           THEN LET b == [a EXCEPT !.selectedPipeline = SelectedPipeline(a.list),
                                   !.view = "Jobs"]
                IN Ret(b, <<loadPipelineDetail(b.selectedPipeline.ID)>>)
           ELSE Ret(a, <<>>)
      [] k = "r" -> Ret([a EXCEPT !.confirmAction = "rerun"], <<>>)
      [] k = "x" -> Ret([a EXCEPT !.confirmAction = "cancel"], <<>>)
      [] OTHER -> Ret(a, <<>>)

updateJobs(a, k) ==
    CASE k = "down" -> Ret([a EXCEPT !.detail = JobDetailMoveDown(a.detail)], <<>>)
      [] k = "up" -> Ret([a EXCEPT !.detail = JobDetailMoveUp(a.detail)], <<>>)
      [] k = "enter" ->
           IF Len(a.detail.jobs) > 0
           THEN LET job == At(a.detail.jobs, a.detail.cursor) IN
                Ret([a EXCEPT !.selectedJob = job,
                              !.steps = NewStepListModel(job.Steps),
                              !.view = "Steps"], <<>>)
           ELSE Ret(a, <<>>)
      [] k = "l" ->
           IF ~a.logLoading /\ Len(a.detail.jobs) > 0
           THEN Ret([a EXCEPT !.logLoading = TRUE],
                    <<loadJobLogs(At(a.detail.jobs, a.detail.cursor))>>)
           ELSE Ret(a, <<>>)
      [] k = "esc" -> Ret([a EXCEPT !.view = "Pipelines"], <<>>)
      [] k = "r" -> Ret([a EXCEPT !.confirmAction = "rerun"], <<>>)
      [] k = "x" -> Ret([a EXCEPT !.confirmAction = "cancel"], <<>>)
      [] OTHER -> Ret(a, <<>>)

updateSteps(a, k) ==
    CASE k = "down" -> Ret([a EXCEPT !.steps = StepListMoveDown(a.steps)], <<>>)
      [] k = "up" -> Ret([a EXCEPT !.steps = StepListMoveUp(a.steps)], <<>>)
      [] k = "l" ->
           IF ~a.logLoading
           THEN Ret([a EXCEPT !.logLoading = TRUE], <<loadJobLogs(a.selectedJob)>>)
           ELSE Ret(a, <<>>)
      [] k = "esc" -> Ret([a EXCEPT !.view = "Jobs"], <<>>)
      [] OTHER -> Ret(a, <<>>)

\* logContent is the number of lines of the log text, 0 for the empty string:
\* strings.Count(s, "\n") and len(strings.Split(s, "\n")) of such a text.
NewlineCount(content) == IF content = 0 THEN 0 ELSE content - 1
SplitLen(content) == IF content = 0 THEN 1 ELSE content

\* A page size without the floor of MinVisibleLogLines.
visibleLogLinesNoFloor(a) == a.height - 4

visibleLogLines(a) ==
    IF a.height - 4 < MinVisibleLogLines THEN MinVisibleLogLines ELSE a.height - 4

\* renderLogView: the bounds of the slice lines[start:end] that is shown.
renderLogViewStart(a) ==
    LET start == IF a.logOffset < 0 THEN 0 ELSE a.logOffset IN
    IF start >= SplitLen(a.logContent) THEN SplitLen(a.logContent) - 1 ELSE start

renderLogViewEnd(a) ==
    LET end == renderLogViewStart(a) + visibleLogLines(a) IN
    IF end > SplitLen(a.logContent) THEN SplitLen(a.logContent) ELSE end

updateLogs(a, k) ==
    CASE k = "down" ->
           IF a.logOffset < NewlineCount(a.logContent)
           THEN Ret([a EXCEPT !.logOffset = @ + 1], <<>>)
           ELSE Ret(a, <<>>)
      [] k = "up" ->
           IF a.logOffset > 0
           THEN Ret([a EXCEPT !.logOffset = @ - 1], <<>>)
           ELSE Ret(a, <<>>)
      [] k = "pgup" ->
           IF a.logOffset - visibleLogLines(a) >= 0
           THEN Ret([a EXCEPT !.logOffset = @ - visibleLogLines(a)], <<>>)
           ELSE Ret([a EXCEPT !.logOffset = 0], <<>>)
      [] k = "pgdown" ->
           LET o == a.logOffset + visibleLogLines(a) IN
           Ret([a EXCEPT !.logOffset = IF o > NewlineCount(a.logContent)
                                       THEN NewlineCount(a.logContent) ELSE o], <<>>)
      [] k = "g" -> Ret([a EXCEPT !.logOffset = 0], <<>>)
      [] k = "G" -> Ret([a EXCEPT !.logOffset = SplitLen(a.logContent) - 1], <<>>)
      [] k = "esc" ->
           Ret([a EXCEPT !.view = a.logReturnView, !.logContent = 0,
                         !.logOffset = 0], <<>>)
      [] OTHER -> Ret(a, <<>>)

\* A cancel that keeps the device code.
updateReAuthKeepsCode(a, k) ==
    IF IsQuitKey(k) THEN Ret(a, <<Quit>>)
    ELSE IF k = "esc"
    THEN Ret([a EXCEPT !.view = "Pipelines",
                       !.err = SessionExpired(a.reAuthProvider),
                       !.reAuthProvider = ""], <<>>)
    ELSE Ret(a, <<>>)

updateReAuth(a, k) ==
    IF IsQuitKey(k) THEN Ret(a, <<Quit>>)
    ELSE IF k = "esc"
    THEN Ret([a EXCEPT !.view = "Pipelines",
                       !.err = SessionExpired(a.reAuthProvider),
                       !.reAuthProvider = "",
                       !.reAuthCode = ZeroCode], <<>>)
    ELSE Ret(a, <<>>)

OnKey(a, k) ==
    IF a.confirmAction # "" THEN OnConfirmKey(a, k)
    ELSE IF IsQuitKey(k) THEN Ret(a, <<Quit>>)
    ELSE IF k = "ctrl+r" THEN Ret([a EXCEPT !.loading = TRUE], <<loadPipelines>>)
    ELSE CASE a.view = "Pipelines" -> updatePipelines(a, k)
           [] a.view = "Jobs" -> updateJobs(a, k)
           [] a.view = "Steps" -> updateSteps(a, k)
           [] a.view = "Logs" -> updateLogs(a, k)
           [] a.view = "ReAuth" -> updateReAuth(a, k)

\* AppModel.Update
Update(a, msg) ==
    CASE msg.type = "WindowSizeMsg" -> OnWindowSize(a, msg)
      [] msg.type = "PipelinesLoadedMsg" -> OnPipelinesLoaded(a, msg)
      [] msg.type = "PipelineDetailMsg" -> OnPipelineDetail(a, msg)
      [] msg.type = "tickMsg" -> OnTick(a)
      [] msg.type = "actionResultMsg" -> OnActionResult(a, msg)
      [] msg.type = "LogsLoadedMsg" -> OnLogsLoaded(a, msg)
      [] msg.type = "DeviceCodeMsg" -> OnDeviceCode(a, msg)
      [] msg.type = "ReAuthCompleteMsg" -> OnReAuthComplete(a, msg)
      [] msg.type = "KeyMsg" -> OnKey(a, msg.Key)

\* What View() puts on the screen.
Screen(a) ==
    IF a.logLoading THEN "Loading logs"
    ELSE IF a.view = "Logs" THEN "Logs"
    ELSE IF a.view = "ReAuth" THEN "ReAuth"
    ELSE IF a.loading /\ a.confirmAction = "" THEN "Loading pipelines"
    ELSE IF a.err # Nil THEN "Error"
    ELSE a.view

\* ------------------------------------------------------------- messages
KeyMsg(k) == [type |-> "KeyMsg", Key |-> k]
WindowSizeMsg(h) == [type |-> "WindowSizeMsg", Height |-> h]
tickMsg == [type |-> "tickMsg"]
PipelinesLoadedMsg(pipelines, e) ==
    [type |-> "PipelinesLoadedMsg", Pipelines |-> pipelines, Err |-> e]
PipelineDetailMsg(pipeline, e) ==
    [type |-> "PipelineDetailMsg", Pipeline |-> pipeline, Err |-> e]
actionResultMsg(action, e) == [type |-> "actionResultMsg", action |-> action, Err |-> e]
LogsLoadedMsg(content, e) == [type |-> "LogsLoadedMsg", Content |-> content, Err |-> e]
DeviceCodeMsg(code, e) == [type |-> "DeviceCodeMsg", Code |-> code, Err |-> e]
ReAuthCompleteMsg(token, e) == [type |-> "ReAuthCompleteMsg", Token |-> token, Err |-> e]

\* ------------------------------------------- the event loop and its workers
Flows == 1..MaxFlows
\* abandoned: "" while the flow is wanted; after escape in the ReAuth view, the
\* stage the flow was in when the user cancelled ("code" or "poll").
IdleFlow == [pc |-> "idle", abandoned |-> ""]
RPIdle == [pc |-> "idle"]
PollIdle == [pc |-> "idle"]

\* The timers among the commands cs.
Timers(cs) == SelectSeq(cs, LAMBDA c : c.kind = "Tick")

Issues(cs, kind) == \E i \in DOMAIN cs : cs[i].kind = kind
IssuedIDs(cs, kind) == { cs[i].id : i \in { j \in DOMAIN cs : cs[j].kind = kind } }
IssuedActions(cs) ==
    (IF Issues(cs, "RerunPipeline") THEN {"rerun"} ELSE {}) \cup
    (IF Issues(cs, "CancelPipeline") THEN {"cancel"} ELSE {})

\* Escape in the ReAuth view, read by the view's own key handling.
IsCancelReAuth(a, msg) ==
    /\ msg.type = "KeyMsg"
    /\ msg.Key = "esc"
    /\ a.confirmAction = ""
    /\ a.view = "ReAuth"

Abandon(f) ==
    [i \in DOMAIN f |->
        IF f[i].pc = "idle" \/ f[i].abandoned # "" THEN f[i]
        ELSE [f[i] EXCEPT !.abandoned = IF f[i].pc = "code" THEN "code" ELSE "poll"]]

FreeSlots(f) == { i \in DOMAIN f : f[i].pc = "idle" }
MinOf(S) == CHOOSE x \in S : \A y \in S : x <= y
Min(a, b) == IF a < b THEN a ELSE b
Max(a, b) == IF a > b THEN a ELSE b

\* One turn of the event loop: Update(m, msg) replaces the model, and the
\* commands it returns start running.  l, d, ac, lg, f and t are the commands
\* and timers left running once the one that produced msg has ended.  A Quit command
\* ends the program and leaves no state behind.
Step(msg, l, d, ac, lg, f, t) ==
    LET r == Update(m, msg)
        f2 == IF IsCancelReAuth(m, msg) THEN Abandon(f) ELSE f
    IN /\ Issues(r.cmds, "RequestCode") => FreeSlots(f2) # {}
       /\ m' = r.m
       /\ listInFlight' = (l \/ Issues(r.cmds, "ListPipelines"))
       /\ detailInFlight' = d \cup IssuedIDs(r.cmds, "GetPipeline")
       /\ actionInFlight' = ac \cup IssuedActions(r.cmds)
       /\ logsInFlight' = (lg \/ Issues(r.cmds, "GetJobLogs"))
       /\ flow' = IF Issues(r.cmds, "RequestCode")
                  THEN [f2 EXCEPT ![MinOf(FreeSlots(f2))] =
                                     [pc |-> "code", abandoned |-> ""]]
                  ELSE f2
       /\ timers' = t + Len(Timers(r.cmds))
       /\ UNCHANGED <<rp, poll>>

Key(k) ==
    Step(KeyMsg(k), listInFlight, detailInFlight, actionInFlight, logsInFlight, flow,
         timers)

\* A timer fires and its tickMsg is read.
Tick ==
    /\ timers > 0
    /\ Step(tickMsg, listInFlight, detailInFlight, actionInFlight, logsInFlight, flow,
            timers - 1)

PipelinesResult(lists, errs) ==
    /\ listInFlight
    /\ \E e \in errs :
         \E ps \in IF e = Nil THEN lists ELSE {<<>>} :
            Step(PipelinesLoadedMsg(ps, e),
                 FALSE, detailInFlight, actionInFlight, logsInFlight, flow, timers)

DetailResult(id, jobLists, errs) ==
    /\ id \in detailInFlight
    /\ \E e \in errs :
         \E p \in IF e = Nil
                  THEN { [ID |-> id, Status |-> st, Jobs |-> js] :
                           st \in Statuses, js \in jobLists }
                  ELSE { [ID |-> 0, Status |-> "", Jobs |-> <<>>] } :
            Step(PipelineDetailMsg(p, e),
                 listInFlight, detailInFlight \ {id}, actionInFlight, logsInFlight, flow, timers)

ActionResult(action, errs) ==
    /\ action \in actionInFlight
    /\ \E e \in errs :
         Step(actionResultMsg(action, e),
              listInFlight, detailInFlight, actionInFlight \ {action}, logsInFlight, flow, timers)

LogsResult(contents, errs) ==
    /\ logsInFlight
    /\ \E e \in errs :
         \E content \in IF e = Nil THEN contents ELSE {0} :
            Step(LogsLoadedMsg(content, e),
                 listInFlight, detailInFlight, actionInFlight, FALSE, flow, timers)

\* The terminal is resized.
WindowSize(heights) ==
    \E h \in heights :
        Step(WindowSizeMsg(h), listInFlight, detailInFlight, actionInFlight,
             logsInFlight, flow, timers)

\* The RequestCode command of slot i ends: a device code, or a request error.
DeviceCodeResult(i) ==
    /\ flow[i].pc = "code"
    /\ \/ \E code \in 1..MaxCodes :
            Step(DeviceCodeMsg(code, Nil),
                 listInFlight, detailInFlight, actionInFlight, logsInFlight,
                 [flow EXCEPT ![i].pc = "sleep"], timers)
       \/ Step(DeviceCodeMsg(ZeroCode, TransientErr),
               listInFlight, detailInFlight, actionInFlight, logsInFlight,
               [flow EXCEPT ![i] = IdleFlow], timers)

\* PollToken: the select at the top of the loop passes (the context is not
\* done) and the token request is sent.
PollRequest(i) ==
    /\ flow[i].pc = "sleep"
    /\ flow' = [flow EXCEPT ![i].pc = "request"]
    /\ UNCHANGED <<m, listInFlight, detailInFlight, actionInFlight, logsInFlight, timers,
                   rp, poll>>

PollResponses == {"authorization_pending", "slow_down", "", "token",
                  "expired_token", "access_denied", "other"}

\* PollToken: the token endpoint answers.
PollAnswer(i) ==
    /\ flow[i].pc = "request"
    /\ \E resp \in PollResponses :
         CASE resp \in {"authorization_pending", "slow_down", ""} ->
                /\ flow' = [flow EXCEPT ![i].pc = "sleep"]
                /\ UNCHANGED <<m, listInFlight, detailInFlight, actionInFlight,
                               logsInFlight, timers, rp, poll>>
           [] resp = "token" ->
                Step(ReAuthCompleteMsg("T", Nil),
                     listInFlight, detailInFlight, actionInFlight, logsInFlight,
                     [flow EXCEPT ![i] = IdleFlow], timers)
           [] OTHER ->
                Step(ReAuthCompleteMsg("", TransientErr),
                     listInFlight, detailInFlight, actionInFlight, logsInFlight,
                     [flow EXCEPT ![i] = IdleFlow], timers)

\* PollToken: the context of pollReAuthToken reaches its deadline (ExpiresIn
\* seconds) and the loop returns ctx.Err().
PollDeadline(i) ==
    /\ flow[i].pc \in {"sleep", "request"}
    /\ Step(ReAuthCompleteMsg("", TransientErr),
            listInFlight, detailInFlight, actionInFlight, logsInFlight,
            [flow EXCEPT ![i] = IdleFlow], timers)

\* The state after NewAppModel and Init(): the first ListPipelines command
\* and the first timer are running.
Init ==
    /\ m = NewAppModel
    /\ listInFlight = TRUE
    /\ detailInFlight = {}
    /\ actionInFlight = {}
    /\ logsInFlight = FALSE
    /\ flow = [i \in Flows |-> IdleFlow]
    /\ timers = 1
    /\ rp = RPIdle
    /\ poll = PollIdle

\* ---------------------------------------------------------------------
\* Spec: the confirm overlay over a changing pipeline list.  The provider
\* answers a list request with any list of up to MaxPipelines pipelines (all
\* finished) or with a transient error, and a detail request with no jobs;
\* the user navigates, opens, backs out, refreshes, and asks for and confirms
\* reruns and cancellations.
FinishedLists ==
    { [i \in DOMAIN ids |-> [ID |-> ids[i], Status |-> "success"]] : ids \in IDSeqs }
PlainErrs == { e \in ProviderErrs : e.kind \in {"nil", "transient"} }
ConfirmKeys == {"down", "up", "enter", "esc", "r", "x", "y", "ctrl+r", "q", "n"}

Next ==
    \/ \E k \in ConfirmKeys : Key(k)
    \/ Tick
    \/ PipelinesResult(FinishedLists, PlainErrs)
    \/ \E id \in PipelineIDs : DetailResult(id, {<<>>}, PlainErrs)
    \/ \E action \in {"rerun", "cancel"} : ActionResult(action, PlainErrs)

Spec == Init /\ [][Next]_vars

\* ---------------------------------------------------------------------
\* SpecRefresh: the pipeline list under refresh.  The provider answers a
\* list request with any list of up to MaxPipelines pipelines, running or
\* finished, or with a transient error; the user moves the cursor and
\* refreshes; every tick reloads the list (and the detail of a running
\* selection).
RefreshKeys == {"down", "up", "ctrl+r"}

NextRefresh ==
    \/ \E k \in RefreshKeys : Key(k)
    \/ Tick
    \/ PipelinesResult(PipelineLists, PlainErrs)
    \/ \E id \in PipelineIDs : DetailResult(id, {<<>>}, PlainErrs)

SpecRefresh == Init /\ [][NextRefresh]_vars

\* ---------------------------------------------------------------------
\* SpecDrill: drilling down.  The provider lists its MaxPipelines pipelines
\* once; a detail request is answered with no job or with MaxJobs jobs, each
\* with no step or MaxSteps steps; the user navigates the three list levels.
AllPipelines == [i \in 1..MaxPipelines |-> [ID |-> i, Status |-> "success"]]
DrillJobLists(pid) ==
    {<<>>} \cup
    { [i \in 1..MaxJobs |-> [ID |-> JobID(pid, i), Steps |-> StepsOf(JobID(pid, i), k)]] :
        k \in {0, MaxSteps} }
DrillKeys == {"down", "up", "enter", "esc"}

NextDrill ==
    \/ \E k \in DrillKeys : Key(k)
    \/ PipelinesResult({AllPipelines}, {Nil})
    \/ \E id \in PipelineIDs : DetailResult(id, DrillJobLists(id), {Nil})

SpecDrill == Init /\ [][NextDrill]_vars

\* ---------------------------------------------------------------------
\* SpecAuth: expired credentials.  The provider has one pipeline with one
\* job; every command can end with AuthExpiredError; the device flow runs
\* in up to MaxFlows slots.
OnePipeline == <<[ID |-> 1, Status |-> "success"]>>
OneJob == <<[ID |-> JobID(1, 1), Steps |-> <<>>]>>
AuthErrs == { e \in ProviderErrs : e.kind \in {"nil", "auth_expired"} }
AuthKeys == {"enter", "esc", "l", "r", "x", "y"}

NextAuth ==
    \/ \E k \in AuthKeys : Key(k)
    \/ Tick
    \/ PipelinesResult({OnePipeline}, AuthErrs)
    \/ \E id \in PipelineIDs : DetailResult(id, {OneJob}, AuthErrs)
    \/ \E action \in {"rerun", "cancel"} : ActionResult(action, AuthErrs)
    \/ LogsResult({1}, AuthErrs)
    \/ \E i \in Flows : DeviceCodeResult(i)
    \/ \E i \in Flows : PollRequest(i)
    \/ \E i \in Flows : PollAnswer(i)
    \/ \E i \in Flows : PollDeadline(i)

SpecAuth == Init /\ [][NextAuth]_vars

\* ---------------------------------------------------------------------
\* SpecTick: the timer in every view.  The provider has one pipeline, running
\* or finished, with one job; a list request can end with AuthExpiredError,
\* which opens the ReAuth view; the user drills down, opens logs, backs out,
\* refreshes and opens the rerun overlay.
TickLists == { <<[ID |-> 1, Status |-> st]>> : st \in Statuses }
TickKeys == {"enter", "esc", "l", "r", "ctrl+r"}

NextTick ==
    \/ \E k \in TickKeys : Key(k)
    \/ Tick
    \/ PipelinesResult(TickLists, AuthErrs)
    \/ \E id \in PipelineIDs : DetailResult(id, {OneJob}, {Nil})
    \/ LogsResult({1}, {Nil})

SpecTick == Init /\ [][NextTick]_vars

\* ---------------------------------------------------------------------
\* SpecNav: the views and their parents.  The provider lists one pipeline or
\* none, or ends a list request with AuthExpiredError; the pipeline has no
\* job or MaxJobs jobs, each with no step or MaxSteps steps; the user moves,
\* opens, backs out and opens logs, and cancels a re-auth prompt.
NavLists == {<<>>, OnePipeline}
NavKeys == {"down", "up", "enter", "esc", "l"}

NextNav ==
    \/ \E k \in NavKeys : Key(k)
    \/ Tick
    \/ PipelinesResult(NavLists, AuthErrs)
    \/ \E id \in PipelineIDs : DetailResult(id, DrillJobLists(id), {Nil})
    \/ LogsResult({1}, {Nil})

SpecNav == Init /\ [][NextNav]_vars

\* ---------------------------------------------------------------------
\* SpecReAuth: the device flow from prompt to outcome.  The provider lists
\* one pipeline with one job, or ends a list or detail request with
\* AuthExpiredError; every tick reloads the list; the device-code request and the poll succeed, fail or
\* run into the deadline; the user opens the pipeline, backs out, cancels the
\* prompt, and opens and closes the rerun overlay.
ReAuthKeys == {"enter", "esc", "r"}

NextReAuth ==
    \/ \E k \in ReAuthKeys : Key(k)
    \/ Tick
    \/ PipelinesResult({OnePipeline}, AuthErrs)
    \/ \E id \in PipelineIDs : DetailResult(id, {OneJob}, AuthErrs)
    \/ \E i \in Flows : DeviceCodeResult(i)
    \/ \E i \in Flows : PollRequest(i)
    \/ \E i \in Flows : PollAnswer(i)
    \/ \E i \in Flows : PollDeadline(i)

SpecReAuth == Init /\ [][NextReAuth]_vars

\* ---------------------------------------------------------------------
\* SpecLogs: scrolling the log of a job.  The provider lists one pipeline
\* with one job; the log of the job is the empty text, one line, one line
\* more than the smallest page, or MaxLogLines lines; the terminal is
\* resized between a height below the floor of the page size and one above
\* it; the user opens the job's log, scrolls and pages through it and backs out.
LogContents == {0, 1, MinVisibleLogLines + 1, MaxLogLines}
LogHeights == {0, MinVisibleLogLines + 6}
LogKeys == {"enter", "l", "esc", "down", "up", "pgup", "pgdown", "g", "G"}

NextLogs ==
    \/ \E k \in LogKeys : Key(k)
    \/ PipelinesResult({OnePipeline}, {Nil})
    \/ \E id \in PipelineIDs : DetailResult(id, {OneJob}, {Nil})
    \/ LogsResult(LogContents, {Nil})
    \/ WindowSize(LogHeights)

SpecLogs == Init /\ [][NextLogs]_vars

\* ---------------------------------------------------------------------
\* SpecData: data that shrinks under the user.  The provider has two
\* pipelines and answers a list request with none, the first or both of
\* them, a detail request with no job or MaxJobs jobs of MaxSteps steps, a
\* log request with an empty log or one of two lines, and each of them with
\* a transient error; the user walks down the three list levels, opens logs
\* and backs out; every tick reloads the list.
TwoPipelines == OnePipeline \o <<[ID |-> 2, Status |-> "success"]>>
DataLists == {<<>>, OnePipeline, TwoPipelines}
DataJobLists(pid) ==
    { [i \in 1..n |-> [ID |-> JobID(pid, i), Steps |-> StepsOf(JobID(pid, i), MaxSteps)]] :
        n \in {0, MaxJobs} }
DataKeys == {"down", "enter", "esc", "l"}

NextData ==
    \/ \E k \in DataKeys : Key(k)
    \/ Tick
    \/ PipelinesResult(DataLists, PlainErrs)
    \/ \E id \in PipelineIDs : DetailResult(id, DataJobLists(id), PlainErrs)
    \/ LogsResult({0, 2}, PlainErrs)

SpecData == Init /\ [][NextData]_vars

\* ---------------------------------------------------------------------
\* SpecResults: results of every kind over loaded data.  The lists and job
\* lists are those of SpecData; list, detail and rerun requests are answered
\* with success or with a transient error; the user walks down the list
\* levels, backs out, and asks for and confirms a rerun, whose success
\* reloads the list.
ResultKeys == {"down", "enter", "esc", "r", "y"}

NextResults ==
    \/ \E k \in ResultKeys : Key(k)
    \/ PipelinesResult(DataLists, PlainErrs)
    \/ \E id \in PipelineIDs : DetailResult(id, DataJobLists(id), PlainErrs)
    \/ ActionResult("rerun", PlainErrs)

SpecResults == Init /\ [][NextResults]_vars

\* ---------------------------------------------------------------------
\* SpecLoading: the two loading flags.  The provider has one pipeline with
\* one job; list and log requests end with success or with any error the
\* decorator can return; the user opens the pipeline, asks for logs and
\* refreshes by hand; the device flow runs as in SpecReAuth and is not
\* cancelled.  FairSpecLoading adds what the runtime ensures: a command that
\* was started ends and its result message is read.
LoadingKeys == {"enter", "l", "ctrl+r"}

ListDelivered == PipelinesResult({OnePipeline}, ProviderErrs)
LogsDelivered == LogsResult({1}, ProviderErrs)

NextLoading ==
    \/ \E k \in LoadingKeys : Key(k)
    \/ ListDelivered
    \/ \E id \in PipelineIDs : DetailResult(id, {OneJob}, {Nil})
    \/ LogsDelivered
    \/ \E i \in Flows : DeviceCodeResult(i)
    \/ \E i \in Flows : PollRequest(i)
    \/ \E i \in Flows : PollAnswer(i)
    \/ \E i \in Flows : PollDeadline(i)

SpecLoading == Init /\ [][NextLoading]_vars

FairSpecLoading == SpecLoading /\ WF_vars(ListDelivered) /\ WF_vars(LogsDelivered)

\* ---------------------------------------------------------------------
\* SpecRP: one call through a RefreshingProvider.  The initial state draws
\* the decorator (github's refreshFn always fails), the operation, and what
\* the wrapped adapter answers to the first and to the retried call and
\* refreshFn to the refresh; the call then runs.
Providers == {"github", "gitlab"}
Operations == {"ListPipelines", "GetPipeline", "GetJobLogs", "RerunPipeline",
               "CancelPipeline"}

RefreshAnswersOf(provider) ==
    IF provider = "github"
    THEN { r \in RefreshAnswers : r.err # Nil }
    ELSE RefreshAnswers

ZeroOf(op) ==
    CASE op = "ListPipelines" -> <<>>
      [] op = "GetPipeline" -> [ID |-> 0, Status |-> "", Jobs |-> <<>>]
      [] OTHER -> 0

PayloadsOf(op) ==
    CASE op = "ListPipelines" -> {OnePipeline}
      [] op = "GetPipeline" -> {[ID |-> 1, Status |-> "success", Jobs |-> OneJob]}
      [] op = "GetJobLogs" -> {1}
      [] OTHER -> {0}

RefreshingCall(op, provider, first, refresh, retry) ==
    CASE op = "ListPipelines" -> RefreshingListPipelines(provider, first, refresh, retry)
      [] op = "GetPipeline" -> RefreshingGetPipeline(provider, first, refresh, retry)
      [] op = "GetJobLogs" -> RefreshingGetJobLogs(provider, first, refresh, retry)
      [] op = "RerunPipeline" -> RefreshingRerunPipeline(provider, first, refresh, retry)
      [] op = "CancelPipeline" -> RefreshingCancelPipeline(provider, first, refresh, retry)

RPCallsOf(op, provider) ==
    { [pc |-> "ready", op |-> op, provider |-> provider, first |-> first,
       refresh |-> refresh, retry |-> retry, out |-> Result(ZeroOf(op), Nil, <<>>)] :
        first \in InnerAnswers(PayloadsOf(op), ZeroOf(op)),
        refresh \in RefreshAnswersOf(provider),
        retry \in InnerAnswers(PayloadsOf(op), ZeroOf(op)) }

InitRP ==
    /\ m = NewAppModel
    /\ listInFlight = TRUE
    /\ detailInFlight = {}
    /\ actionInFlight = {}
    /\ logsInFlight = FALSE
    /\ flow = [i \in Flows |-> IdleFlow]
    /\ timers = 1
    /\ poll = PollIdle
    /\ \E op \in Operations, provider \in Providers : rp \in RPCallsOf(op, provider)

RPCall ==
    /\ rp.pc = "ready"
    /\ rp' = [rp EXCEPT !.pc = "done",
                        !.out = RefreshingCall(rp.op, rp.provider, rp.first,
                                               rp.refresh, rp.retry)]
    /\ UNCHANGED <<appVars, poll>>

NextRP == RPCall

SpecRP == InitRP /\ [][NextRP]_vars

\* ---------------------------------------------------------------------
\* SpecToken: one call through the gitlab decorator with the refreshFn of
\* cmd/gitdeck/main.go, TokenManager.RefreshGitLab.  The token manager holds
\* a refresh token or none and a config path or none; the token endpoint and
\* config.Save each succeed or fail.
SaveErr == [kind |-> "save_failed", provider |-> ""]
NoRefreshToken == [kind |-> "no_refresh_token", provider |-> ""]
RefreshFailed == [kind |-> "refresh_failed", provider |-> ""]

TokenManagers ==
    [refreshToken : {"", "old-refresh"}, configPath : {"", "config.toml"},
     endpoint : {Nil, TransientErr}, save : {Nil, TransientErr}]

\* RefreshGitLab: what refreshFn hands to handleUnauthorized, and the access
\* token the config holds in memory afterwards.
RefreshGitLab(tm) ==
    IF tm.refreshToken = ""
    THEN [token |-> "", err |-> NoRefreshToken, cfgToken |-> "old-token"]
    ELSE IF tm.endpoint # Nil
    THEN [token |-> "", err |-> RefreshFailed, cfgToken |-> "old-token"]
    ELSE IF tm.configPath # "" /\ tm.save # Nil
    THEN [token |-> "new-token", err |-> SaveErr, cfgToken |-> "new-token"]
    ELSE [token |-> "new-token", err |-> Nil, cfgToken |-> "new-token"]

TokenCallsOf(op) ==
    { [pc |-> "ready", op |-> op, provider |-> "gitlab", first |-> first,
       tm |-> tm, refresh |-> [token |-> "", err |-> Nil, cfgToken |-> "old-token"],
       retry |-> retry, out |-> Result(ZeroOf(op), Nil, <<>>)] :
        first \in InnerAnswers(PayloadsOf(op), ZeroOf(op)),
        tm \in TokenManagers,
        retry \in InnerAnswers(PayloadsOf(op), ZeroOf(op)) }

InitToken ==
    /\ m = NewAppModel
    /\ listInFlight = TRUE
    /\ detailInFlight = {}
    /\ actionInFlight = {}
    /\ logsInFlight = FALSE
    /\ flow = [i \in Flows |-> IdleFlow]
    /\ timers = 1
    /\ poll = PollIdle
    /\ \E op \in Operations : rp \in TokenCallsOf(op)

\* The decorated call; refreshFn runs only when the first answer is
\* ErrUnauthorized.
TokenCall ==
    /\ rp.pc = "ready"
    /\ LET refresh == RefreshGitLab(rp.tm) IN
       rp' = [rp EXCEPT !.pc = "done",
                        !.refresh = IF IsUnauthorized(rp.first.err) THEN refresh
                                    ELSE rp.refresh,
                        !.out = RefreshingCall(rp.op, rp.provider, rp.first,
                                               refresh, rp.retry)]
    /\ UNCHANGED <<appVars, poll>>

NextToken == TokenCall

SpecToken == InitToken /\ [][NextToken]_vars

\* ---------------------------------------------------------------------
\* SpecPoll: one call of PollToken (GitLabDeviceFlow and GitHubDeviceFlow
\* share the loop).  The caller passes an interval of -1, 0 or
\* SlowDownSeconds seconds and a context that has no deadline or one 0 or
\* MaxExpiry seconds away (pollReAuthToken passes the device code's
\* ExpiresIn); the clock counts the seconds since the call; a request that is
\* sent is answered RequestSeconds later.  A call without a deadline gets at
\* most MaxPolls answers that keep it polling.
PollIntervals == {-1, 0, SlowDownSeconds}
PollExpiries == {0, MaxExpiry}
TokenAnswers == PollResponses \cup {"failure"}
Retrying == {"authorization_pending", "slow_down", ""}

\* The call has normalised its interval and is at the top of the loop.
PollStart(interval, hasDeadline, deadline) ==
    [pc |-> "select", arg |-> interval,
     interval |-> IF interval <= 0 THEN 0 ELSE interval,
     first |-> IF interval <= 0 THEN 0 ELSE interval,
     hasDeadline |-> hasDeadline, deadline |-> deadline, clock |-> 0,
     requests |-> 0, lastRequestAt |-> 0, lastResp |-> "none",
     pendings |-> 0, slowDowns |-> 0, empties |-> 0,
     sleeps |-> 0, lastSleep |-> 0,
     token |-> "", err |-> ""]

PollCalls ==
    { PollStart(i, TRUE, d) : i \in PollIntervals, d \in PollExpiries } \cup
    { PollStart(i, FALSE, 0) : i \in PollIntervals }

\* ctx.Done() is closed once the deadline has passed, and at once for a
\* timeout of 0; at the second of the deadline itself a reader may see it
\* closed or not.
CtxMayBeDone(p) == p.hasDeadline /\ p.clock >= p.deadline
CtxMustBeDone(p) == p.hasDeadline /\ (p.clock > p.deadline \/ p.deadline = 0)

PollReturn(p, token, e) == [p EXCEPT !.pc = "done", !.token = token, !.err = e]

\* A select that never looks at ctx.Done().
PollTokenSelectIgnoresCtx ==
    /\ poll.pc = "select"
    /\ poll' = IF poll.interval > 0
               THEN [poll EXCEPT !.pc = "do", !.clock = @ + poll.interval,
                                 !.sleeps = @ + 1, !.lastSleep = poll.interval]
               ELSE [poll EXCEPT !.pc = "do"]
    /\ UNCHANGED <<appVars, rp>>

\* The select at the top of the loop: the sleep of interval seconds against
\* ctx.Done(), or with interval 0 a look at ctx.Done().
PollTokenSelect ==
    /\ poll.pc = "select"
    /\ IF poll.interval > 0
       THEN LET wake == poll.clock + poll.interval IN
            \/ /\ ~poll.hasDeadline \/ (poll.deadline # 0 /\ wake <= poll.deadline)
               /\ poll' = [poll EXCEPT !.pc = "do", !.clock = wake,
                                       !.sleeps = @ + 1, !.lastSleep = poll.interval]
            \/ /\ poll.hasDeadline /\ (poll.deadline = 0 \/ wake >= poll.deadline)
               /\ poll' = PollReturn([poll EXCEPT !.clock = Max(poll.clock, poll.deadline)],
                                     "", "ctx")
       ELSE \/ ~CtxMustBeDone(poll) /\ poll' = [poll EXCEPT !.pc = "do"]
            \/ CtxMayBeDone(poll) /\ poll' = PollReturn(poll, "", "ctx")
    /\ UNCHANGED <<appVars, rp>>

\* A switch that goes on polling after the token.
PollSwitchTokenKeepsPolling(p, resp, ctxDone) ==
    CASE resp = "token" -> [p EXCEPT !.pc = "select"]
      [] resp = "" ->
           IF ctxDone THEN PollReturn([p EXCEPT !.empties = @ + 1], "", "ctx")
           ELSE [p EXCEPT !.pc = "select", !.empties = @ + 1]
      [] resp = "authorization_pending" -> [p EXCEPT !.pc = "select", !.pendings = @ + 1]
      [] resp = "slow_down" ->
           [p EXCEPT !.pc = "select", !.interval = @ + SlowDownSeconds,
                     !.slowDowns = @ + 1]
      [] resp = "expired_token" -> PollReturn(p, "", "expired")
      [] resp = "access_denied" -> PollReturn(p, "", "denied")
      [] resp = "failure" -> PollReturn(p, "", "failure")
      [] OTHER -> PollReturn(p, "", "unexpected")

\* A switch whose slow_down is not cumulative.
PollSwitchSlowDownOnce(p, resp, ctxDone) ==
    CASE resp = "token" -> PollReturn(p, "T", "")
      [] resp = "" ->
           IF ctxDone THEN PollReturn([p EXCEPT !.empties = @ + 1], "", "ctx")
           ELSE [p EXCEPT !.pc = "select", !.empties = @ + 1]
      [] resp = "authorization_pending" -> [p EXCEPT !.pc = "select", !.pendings = @ + 1]
      [] resp = "slow_down" ->
           [p EXCEPT !.pc = "select", !.interval = p.first + SlowDownSeconds,
                     !.slowDowns = @ + 1]
      [] resp = "expired_token" -> PollReturn(p, "", "expired")
      [] resp = "access_denied" -> PollReturn(p, "", "denied")
      [] resp = "failure" -> PollReturn(p, "", "failure")
      [] OTHER -> PollReturn(p, "", "unexpected")

\* A switch that goes on polling after access_denied.
PollSwitchDeniedKeepsPolling(p, resp, ctxDone) ==
    CASE resp = "token" -> PollReturn(p, "T", "")
      [] resp = "" ->
           IF ctxDone THEN PollReturn([p EXCEPT !.empties = @ + 1], "", "ctx")
           ELSE [p EXCEPT !.pc = "select", !.empties = @ + 1]
      [] resp = "authorization_pending" -> [p EXCEPT !.pc = "select", !.pendings = @ + 1]
      [] resp = "slow_down" ->
           [p EXCEPT !.pc = "select", !.interval = @ + SlowDownSeconds,
                     !.slowDowns = @ + 1]
      [] resp = "expired_token" -> PollReturn(p, "", "expired")
      [] resp = "access_denied" -> [p EXCEPT !.pc = "select"]
      [] resp = "failure" -> PollReturn(p, "", "failure")
      [] OTHER -> PollReturn(p, "", "unexpected")

\* The switch on the error code of a decoded answer.
PollSwitch(p, resp, ctxDone) ==
    CASE resp = "token" -> PollReturn(p, "T", "")
      [] resp = "" ->
           IF ctxDone THEN PollReturn([p EXCEPT !.empties = @ + 1], "", "ctx")
           ELSE [p EXCEPT !.pc = "select", !.empties = @ + 1]
      [] resp = "authorization_pending" -> [p EXCEPT !.pc = "select", !.pendings = @ + 1]
      [] resp = "slow_down" ->
           [p EXCEPT !.pc = "select", !.interval = @ + SlowDownSeconds,
                     !.slowDowns = @ + 1]
      [] resp = "expired_token" -> PollReturn(p, "", "expired")
      [] resp = "access_denied" -> PollReturn(p, "", "denied")
      [] resp = "failure" -> PollReturn(p, "", "failure")
      [] OTHER -> PollReturn(p, "", "unexpected")

\* The token request: client.Do gives up without sending when the context is
\* done, and fails when the context ends before the answer; otherwise the
\* answer is decoded and switched on.
PollTokenDo ==
    /\ poll.pc = "do"
    /\ \/ CtxMayBeDone(poll) /\ poll' = PollReturn(poll, "", "failure")
       \/ /\ ~CtxMustBeDone(poll)
          /\ LET sent == [poll EXCEPT !.requests = @ + 1,
                                      !.lastRequestAt = poll.clock,
                                      !.lastResp = "none",
                                      !.clock = @ + RequestSeconds]
             IN \/ CtxMayBeDone(sent) /\ poll' = PollReturn(sent, "", "failure")
                \/ /\ ~CtxMustBeDone(sent)
                   /\ \E resp \in TokenAnswers, ctxDone \in BOOLEAN :
                        /\ resp \in Retrying =>
                              (poll.hasDeadline \/ sent.requests < MaxPolls)
                        /\ ctxDone => CtxMayBeDone(sent)
                        /\ ~ctxDone => ~CtxMustBeDone(sent)
                        /\ poll' = PollSwitch([sent EXCEPT !.lastResp = resp],
                                              resp, ctxDone)
    /\ UNCHANGED <<appVars, rp>>

InitPoll ==
    /\ m = NewAppModel
    /\ listInFlight = TRUE
    /\ detailInFlight = {}
    /\ actionInFlight = {}
    /\ logsInFlight = FALSE
    /\ flow = [i \in Flows |-> IdleFlow]
    /\ timers = 1
    /\ rp = RPIdle
    /\ poll \in PollCalls

NextPoll == PollTokenSelect \/ PollTokenDo

SpecPoll == InitPoll /\ [][NextPoll]_vars

\* The goroutine running PollToken keeps running.
FairSpecPoll == SpecPoll /\ WF_vars(NextPoll)

\* =====================================================================
\* Properties
\* =====================================================================
\* What the confirm key would dispatch in model a.
ConfirmDispatch(a) == Update(a, KeyMsg("y")).cmds

\* The command the overlay of model a is pending on.
PendingCommand(a) ==
    IF a.confirmAction = "rerun"
    THEN rerunPipeline(a.selectedPipeline.ID)
    ELSE cancelPipeline(a.selectedPipeline.ID)

\* C1: confirm targets the pipeline captured at prompt time.  From the action
\* key on, as long as the overlay stays open, no message the loop processes
\* changes the command the confirm key dispatches: it is RerunPipeline or
\* CancelPipeline with the ID selected when the action key was pressed.
C1_ConfirmTargetsPromptPipeline ==
    [][(m.confirmAction # "" /\ m'.confirmAction # "")
          => ConfirmDispatch(m') = ConfirmDispatch(m)]_vars

\* C10 as stated: while the overlay is active the confirm key clears it and
\* issues the pending command, a quit key quits, and any other key clears the
\* overlay, issues no command and changes nothing else.
OverlayQuitAndOtherKeys(a) ==
    /\ \A k \in {"q", "ctrl+c"} : Update(a, KeyMsg(k)) = Ret(a, <<Quit>>)
    /\ \A k \in Keys \ {"y", "q", "ctrl+c"} :
          Update(a, KeyMsg(k)) = Ret([a EXCEPT !.confirmAction = ""], <<>>)

C10_OverlayConfirmAlwaysIssues ==
    m.confirmAction # "" =>
        /\ Update(m, KeyMsg("y")) =
              Ret([m EXCEPT !.confirmAction = ""], <<PendingCommand(m)>>)
        /\ OverlayQuitAndOtherKeys(m)

\* C10, amended: while the overlay is active the confirm key clears it and
\* issues the pending command when a pipeline is selected (non-empty ID), and
\* no command when none is; a quit key quits; any other key clears the
\* overlay, issues no command and leaves view, cursors and selection unchanged.
C10_OverlayThreeOutcomes ==
    m.confirmAction # "" =>
        /\ Update(m, KeyMsg("y")) =
              Ret([m EXCEPT !.confirmAction = ""],
                  IF m.selectedPipeline.ID # 0 THEN <<PendingCommand(m)>> ELSE <<>>)
        /\ OverlayQuitAndOtherKeys(m)

\* C10 witness: the overlay is open over the Jobs view on a selected pipeline
\* with the cursor moved, and confirm issues the cancellation of that pipeline.
C10_Witness ==
    /\ m.confirmAction = "cancel"
    /\ m.view = "Jobs"
    /\ m.list.cursor = 1
    /\ m.selectedPipeline.ID # 0
    /\ Update(m, KeyMsg("y")).cmds = <<cancelPipeline(m.selectedPipeline.ID)>>
    /\ Update(m, KeyMsg("down")).m = [m EXCEPT !.confirmAction = ""]

\* C5: after a non-auth error has set the banner, the next successful list
\* result clears it and the normal view is on the screen again.
C5_SuccessfulListClearsBanner ==
    (m.err.kind = "transient" /\ listInFlight) =>
        \A ps \in PipelineLists :
            LET r == Update(m, PipelinesLoadedMsg(ps, Nil)) IN
            /\ r.m.err = Nil
            /\ Screen(r.m) = r.m.view

\* C8: when a successful list result replaces a non-empty list, the list is
\* the new one and the cursor is on the pipeline with the ID that was under it
\* if the new list has that ID (the entry being the new list's), and 0 if not.
C8_RefreshPreservesSelection ==
    (Len(m.list.pipelines) > 0 /\ listInFlight) =>
        \A ps \in PipelineLists :
            LET r == Update(m, PipelinesLoadedMsg(ps, Nil))
                id == SelectedPipeline(m.list).ID
            IN /\ r.m.list.pipelines = ps
               /\ IF \E i \in DOMAIN ps : ps[i].ID = id
                  THEN /\ r.m.list.cursor \in 0..(Len(ps) - 1)
                       /\ At(ps, r.m.list.cursor).ID = id
                       /\ SelectedPipeline(r.m.list) = At(ps, r.m.list.cursor)
                  ELSE r.m.list.cursor = 0

\* C8 witness: the cursor is on the second pipeline while a list request runs,
\* and an answer that moves that pipeline to the front with another status
\* moves the cursor with it.
C8_Witness ==
    /\ listInFlight
    /\ Len(m.list.pipelines) = MaxPipelines
    /\ m.list.cursor = 1
    /\ \E ps \in PipelineLists :
          LET r == Update(m, PipelinesLoadedMsg(ps, Nil)) IN
          /\ Len(ps) = MaxPipelines
          /\ ps[1].ID = SelectedPipeline(m.list).ID
          /\ ps[1].Status # SelectedPipeline(m.list).Status
          /\ r.m.list.cursor = 0
          /\ SelectedPipeline(r.m.list) = ps[1]

\* C2: for each of the five operations, a call whose first inner call and
\* whose retried inner call both return Unauthorized around a successful
\* refresh returns AuthExpiredError for the decorator's provider, and no call
\* through the decorator returns an error matching the Unauthorized sentinel.
C2_SecondUnauthorizedEscalates ==
    rp.pc = "done" =>
        /\ ~IsUnauthorized(rp.out.err)
        /\ (IsUnauthorized(rp.first.err) /\ rp.refresh.err = Nil
              /\ IsUnauthorized(rp.retry.err))
             => rp.out.err = AuthExpiredError(rp.provider)

\* The next state is the ReAuth view for provider p and RequestCode is issued.
EntersReAuth(r, p) ==
    /\ r.m.view = "ReAuth"
    /\ r.m.reAuthProvider = p
    /\ Issues(r.cmds, "RequestCode")

\* C3: with the request-code callback configured, the result of a running
\* list, detail, rerun, cancel or log command that carries AuthExpiredError
\* puts the model in the ReAuth view with the error's provider and issues
\* RequestCode, whatever the view.
C3_AuthExpiredAlwaysEntersReAuth ==
    LET e == AuthExpiredError(ProviderName) IN
    OnRequestCodeSet =>
        /\ listInFlight => EntersReAuth(Update(m, PipelinesLoadedMsg(<<>>, e)), e.provider)
        /\ \A id \in detailInFlight :
              EntersReAuth(Update(m, PipelineDetailMsg(ZeroOf("GetPipeline"), e)), e.provider)
        /\ \A action \in actionInFlight :
              EntersReAuth(Update(m, actionResultMsg(action, e)), e.provider)
        /\ logsInFlight => EntersReAuth(Update(m, LogsLoadedMsg(0, e)), e.provider)

\* C4: while the job list is displayed, the successful result of a running
\* detail command for a pipeline other than the selected one leaves the
\* displayed job list as it is.
C4_StaleDetailDiscarded ==
    m.view = "Jobs" =>
        \A id \in detailInFlight \ {m.selectedPipeline.ID} :
            \A js \in DrillJobLists(id) :
                Update(m, PipelineDetailMsg([ID |-> id, Status |-> "success", Jobs |-> js],
                                            Nil)).m.detail = m.detail

\* C6: once the user has cancelled re-auth while PollToken was running, that
\* poll loop sends no further token request.
C6_CancelStopsPolling ==
    [][\A i \in Flows :
          flow[i].abandoned = "poll" => ~(flow[i].pc = "sleep" /\ flow'[i].pc = "request")]_vars

\* The handler drops the message: view, banner and loading flag stay, no
\* OnTokenRefreshed call, no command.
Discards(a, msg) ==
    LET r == Update(a, msg) IN
    /\ r.m.view = a.view
    /\ r.m.err = a.err
    /\ r.m.loading = a.loading
    /\ r.cb = <<>>
    /\ r.cmds = <<>>

\* C7: after the user has cancelled re-auth, the DeviceCodeMsg or
\* ReAuthCompleteMsg (success or error) of the abandoned flow changes neither
\* view, banner nor loading flag, calls no OnTokenRefreshed, issues no command.
C7_AbandonedAuthDiscarded ==
    \A i \in Flows :
        /\ (flow[i].abandoned # "" /\ flow[i].pc = "code") =>
              /\ \A code \in 1..MaxCodes : Discards(m, DeviceCodeMsg(code, Nil))
              /\ Discards(m, DeviceCodeMsg(ZeroCode, TransientErr))
        /\ (flow[i].abandoned # "" /\ flow[i].pc \in {"sleep", "request"}) =>
              /\ Discards(m, ReAuthCompleteMsg("T", Nil))
              /\ Discards(m, ReAuthCompleteMsg("", TransientErr))

InRange(cursor, len) == IF len = 0 THEN cursor = 0 ELSE cursor \in 0..(len - 1)

\* C9: at each list level the cursor is in [0, len-1], and 0 when the list is
\* empty, whatever up/down keys were read; a move down on the last element
\* and a move up on the first are no-ops.
C9_CursorsInRange ==
    /\ InRange(m.list.cursor, Len(m.list.pipelines))
    /\ InRange(m.detail.cursor, Len(m.detail.jobs))
    /\ InRange(m.steps.cursor, Len(m.steps.steps))
    /\ m.list.cursor >= Len(m.list.pipelines) - 1 => PipelineListMoveDown(m.list) = m.list
    /\ m.detail.cursor >= Len(m.detail.jobs) - 1 => JobDetailMoveDown(m.detail) = m.detail
    /\ m.steps.cursor >= Len(m.steps.steps) - 1 => StepListMoveDown(m.steps) = m.steps
    /\ m.list.cursor = 0 => PipelineListMoveUp(m.list) = m.list
    /\ m.detail.cursor = 0 => JobDetailMoveUp(m.detail) = m.detail
    /\ m.steps.cursor = 0 => StepListMoveUp(m.steps) = m.steps
    /\ (m.confirmAction = "" /\ m.view \in {"Pipelines", "Jobs", "Steps"}) =>
          \A k \in {"down", "up"} :
              LET a == Update(m, KeyMsg(k)).m IN
              /\ InRange(a.list.cursor, Len(a.list.pipelines))
              /\ InRange(a.detail.cursor, Len(a.detail.jobs))
              /\ InRange(a.steps.cursor, Len(a.steps.steps))

\* C9 witness: all three cursors are on the last element of a list of more
\* than one, in the Steps view, and one more down key moves none of them.
C9_Witness ==
    /\ m.view = "Steps"
    /\ Len(m.list.pipelines) = MaxPipelines /\ m.list.cursor = MaxPipelines - 1
    /\ Len(m.detail.jobs) = MaxJobs /\ m.detail.cursor = MaxJobs - 1
    /\ Len(m.steps.steps) = MaxSteps /\ m.steps.cursor = MaxSteps - 1
    /\ Update(m, KeyMsg("down")).m = m

\* The RerunPipeline and CancelPipeline commands among cs.
ActionCommands(cs) ==
    SelectSeq(cs, LAMBDA c : c.kind \in {"RerunPipeline", "CancelPipeline"})

KindOf(action) == IF action = "rerun" THEN "RerunPipeline" ELSE "CancelPipeline"

\* No message but the confirm key read by the overlay makes Update return a
\* rerun or cancel command.
OnlyConfirmDispatches(a) ==
    /\ \A k \in Keys :
          (k # "y" \/ a.confirmAction = "") =>
              ActionCommands(Update(a, KeyMsg(k)).cmds) = <<>>
    /\ ActionCommands(Update(a, tickMsg).cmds) = <<>>
    /\ \A ps \in FinishedLists :
          ActionCommands(Update(a, PipelinesLoadedMsg(ps, Nil)).cmds) = <<>>
    /\ \A id \in PipelineIDs :
          ActionCommands(Update(a, PipelineDetailMsg(
              [ID |-> id, Status |-> "success", Jobs |-> <<>>], Nil)).cmds) = <<>>
    /\ \A e \in ProviderErrs :
          /\ e # Nil => ActionCommands(Update(a, PipelinesLoadedMsg(<<>>, e)).cmds) = <<>>
          /\ e # Nil => ActionCommands(Update(a, PipelineDetailMsg(
                            [ID |-> 0, Status |-> "", Jobs |-> <<>>], e)).cmds) = <<>>
          /\ \A action \in {"rerun", "cancel"} :
                ActionCommands(Update(a, actionResultMsg(action, e)).cmds) = <<>>
          /\ ActionCommands(Update(a, LogsLoadedMsg(0, e)).cmds) = <<>>
    /\ \A code \in 1..MaxCodes :
          ActionCommands(Update(a, DeviceCodeMsg(code, Nil)).cmds) = <<>>
    /\ ActionCommands(Update(a, DeviceCodeMsg(ZeroCode, TransientErr)).cmds) = <<>>
    /\ ActionCommands(Update(a, ReAuthCompleteMsg("T", Nil)).cmds) = <<>>
    /\ ActionCommands(Update(a, ReAuthCompleteMsg("", TransientErr)).cmds) = <<>>

\* The confirm key issues n commands, of the recorded kind, and a second
\* confirm key right after it issues none.
ConfirmDispatches(a, n) ==
    LET r == Update(a, KeyMsg("y")) IN
    /\ Len(ActionCommands(r.cmds)) = n
    /\ \A i \in DOMAIN r.cmds : r.cmds[i].kind = KindOf(a.confirmAction)
    /\ ActionCommands(Update(r.m, KeyMsg("y")).cmds) = <<>>

\* C11 as stated: a rerun or cancel command is issued only by the confirm key
\* of an active overlay, with the kind of the recorded action, and every
\* action-key/confirm pair issues exactly one command.
C11_ExactlyOneDispatchPerConfirm ==
    /\ OnlyConfirmDispatches(m)
    /\ m.confirmAction # "" => ConfirmDispatches(m, 1)

\* C11, amended: a rerun or cancel command is issued only by the confirm key
\* of an active overlay, with the kind of the recorded action; an
\* action-key/confirm pair issues exactly one command when a pipeline is
\* selected and none when no pipeline is, and a second confirm key issues none.
C11_DispatchOnlyOnConfirm ==
    /\ OnlyConfirmDispatches(m)
    /\ m.confirmAction # "" =>
          ConfirmDispatches(m, IF m.selectedPipeline.ID # 0 THEN 1 ELSE 0)

\* C11 witness: the rerun overlay is open on a selected pipeline while an
\* earlier rerun is still running; confirm issues one RerunPipeline.
C11_Witness ==
    /\ m.confirmAction = "rerun"
    /\ m.selectedPipeline.ID # 0
    /\ "rerun" \in actionInFlight
    /\ ActionCommands(Update(m, KeyMsg("y")).cmds) = <<rerunPipeline(m.selectedPipeline.ID)>>

\* The calls to fn among calls.
CallsTo(calls, fn) == SelectSeq(calls, LAMBDA c : c.fn = fn)

\* C12: one call through the decorator invokes refreshFn at most once and the
\* inner operation at most twice; when the first inner call returns
\* Unauthorized and the refresh succeeds, the calls are inner, refreshFn,
\* updateToken with the refreshed token, inner, in that order, and the
\* caller receives the result and error of the retry.
C12_RefreshOnceRetryOnce ==
    rp.pc = "done" =>
        /\ Len(CallsTo(rp.out.calls, "refreshFn")) <= 1
        /\ Len(CallsTo(rp.out.calls, "inner")) <= 2
        /\ (IsUnauthorized(rp.first.err) /\ rp.refresh.err = Nil) =>
              /\ rp.out.calls = <<Call("inner", ""), Call("refreshFn", ""),
                                  Call("updateToken", rp.refresh.token), Call("inner", "")>>
              /\ rp.out.res = rp.retry.res
              /\ rp.out.err = rp.retry.err

\* C12 witness: a GetPipeline call whose first attempt was Unauthorized has
\* returned the pipeline of the retry after a successful refresh.
C12_Witness ==
    /\ rp.pc = "done"
    /\ rp.op = "GetPipeline"
    /\ IsUnauthorized(rp.first.err)
    /\ rp.refresh.err = Nil
    /\ rp.retry.err = Nil
    /\ rp.out.res = rp.retry.res
    /\ rp.out.res.ID # 0
    /\ Len(rp.out.calls) = 4

\* C13: when the inner call returns Unauthorized and refreshFn fails, the
\* decorator returns AuthExpiredError with its provider name, not the
\* original error, calls no updateToken and does not retry the operation.
C13_RefreshFailureEscalates ==
    (rp.pc = "done" /\ IsUnauthorized(rp.first.err) /\ rp.refresh.err # Nil) =>
        /\ rp.out.err = AuthExpiredError(rp.provider)
        /\ rp.out.err # rp.first.err
        /\ rp.out.res = ZeroOf(rp.op)
        /\ CallsTo(rp.out.calls, "updateToken") = <<>>
        /\ Len(CallsTo(rp.out.calls, "inner")) = 1
        /\ Len(CallsTo(rp.out.calls, "refreshFn")) = 1

\* C13 witness: a rerun through the github decorator, whose refreshFn always
\* fails, has ended with AuthExpiredError for github.
C13_Witness ==
    /\ rp.pc = "done"
    /\ rp.op = "RerunPipeline"
    /\ rp.provider = "github"
    /\ IsUnauthorized(rp.first.err)
    /\ rp.out.err = AuthExpiredError("github")

\* C14: when the inner operation succeeds or fails with an error that is not
\* Unauthorized, the decorator returns the inner result and error as they
\* are, after that one inner call and no call to refreshFn or updateToken.
C14_PassThrough ==
    (rp.pc = "done" /\ ~IsUnauthorized(rp.first.err)) =>
        /\ rp.out.res = rp.first.res
        /\ rp.out.err = rp.first.err
        /\ rp.out.calls = <<Call("inner", "")>>

\* C14 witness: a ListPipelines call whose inner call failed with an
\* ordinary error has returned that error.
C14_Witness ==
    /\ rp.pc = "done"
    /\ rp.op = "ListPipelines"
    /\ rp.first.err = TransientErr
    /\ rp.out.err = TransientErr
    /\ Len(rp.out.calls) = 1

\* C15: a tick re-arms the timer with 5 seconds if a pipeline of the list the
\* state holds is running, and with 30 seconds if none is or the list is empty.
C15_TickInterval ==
    LET armed == Timers(Update(m, tickMsg).cmds) IN
    /\ Len(armed) = 1
    /\ armed[1].id = IF \E i \in DOMAIN m.list.pipelines :
                            m.list.pipelines[i].Status = "running"
                     THEN 5 ELSE 30

\* C15 witness: the first, selected pipeline has finished and the last one is
\* running; the tick arms 5 seconds.
C15_Witness ==
    /\ Len(m.list.pipelines) = MaxPipelines
    /\ m.list.pipelines[1].Status = "success"
    /\ m.selectedPipeline.Status = "success"
    /\ m.list.pipelines[MaxPipelines].Status = "running"
    /\ Timers(Update(m, tickMsg).cmds) = <<tickEvery(5)>>

\* The commands of the given kind among cs.
CommandsOf(cs, kind) == SelectSeq(cs, LAMBDA c : c.kind = kind)

\* C16: in every view and overlay state a tick issues ListPipelines and
\* re-arms one timer, so that one timer is armed at any time after Init; it
\* issues GetPipeline, for the selected pipeline, exactly when the
\* selected-pipeline snapshot is running and has a non-empty ID; and it
\* issues nothing else.
C16_TickCommands ==
    LET r == Update(m, tickMsg)
        wantsDetail == m.selectedPipeline.Status = "running" /\ m.selectedPipeline.ID # 0
    IN /\ timers = 1
       /\ Len(CommandsOf(r.cmds, "ListPipelines")) = 1
       /\ Len(CommandsOf(r.cmds, "Tick")) = 1
       /\ CommandsOf(r.cmds, "GetPipeline") =
             IF wantsDetail THEN <<loadPipelineDetail(m.selectedPipeline.ID)>> ELSE <<>>
       /\ Len(r.cmds) = IF wantsDetail THEN 3 ELSE 2

\* C16 witness: in the ReAuth view, with the rerun overlay still set and a
\* running pipeline selected, a tick issues the list, the timer and the detail.
C16_Witness ==
    /\ m.view = "ReAuth"
    /\ m.confirmAction = "rerun"
    /\ m.selectedPipeline.Status = "running"
    /\ Len(Update(m, tickMsg).cmds) = 3
    /\ timers = 1

\* The depth of a view below the pipeline list; the ReAuth prompt sits beside
\* the list.
Depth(v) ==
    CASE v = "Jobs" -> 1
      [] v = "Steps" -> 2
      [] v = "Logs" -> 3
      [] OTHER -> 0

\* C17: with no overlay up, open in Pipelines on a loaded pipeline leads to
\* Jobs and open in Jobs on a job leads to Steps; in Steps, view-logs issues the
\* log request, its result leads to Logs and back from there leads to Steps;
\* back leads from Steps to Jobs, from Jobs to Pipelines and from Pipelines to
\* Pipelines, from Logs to the view the log result arrived in, and never to a
\* deeper view.
C17_DrillDownAndBack ==
    LET open == Update(m, KeyMsg("enter")).m
        back == Update(m, KeyMsg("esc")).m
        logs == Update(m, KeyMsg("l"))
        shown == Update(logs.m, LogsLoadedMsg(1, Nil)).m
    IN m.confirmAction = "" =>
         /\ (m.view = "Pipelines" /\ Len(m.list.pipelines) > 0) => open.view = "Jobs"
         /\ (m.view = "Jobs" /\ Len(m.detail.jobs) > 0) => open.view = "Steps"
         /\ (m.view = "Steps" /\ ~m.logLoading) =>
               /\ logs.cmds = <<loadJobLogs(m.selectedJob)>>
               /\ logs.m.view = "Steps"
               /\ shown.view = "Logs"
               /\ Update(shown, KeyMsg("esc")).m.view = "Steps"
         /\ m.view = "Logs" => back.view = m.logReturnView
         /\ m.view = "Steps" => back.view = "Jobs"
         /\ m.view = "Jobs" => back.view = "Pipelines"
         /\ m.view = "Pipelines" => back.view = "Pipelines"
         /\ Depth(back.view) <= Depth(m.view)

\* The Logs view, opened from Steps, from which back leads to Steps.
C17_Witness ==
    /\ m.view = "Logs"
    /\ m.logReturnView = "Steps"
    /\ m.confirmAction = ""
    /\ Update(m, KeyMsg("esc")).m.view = "Steps"

\* What open does in the Pipelines and Jobs views, and what holds of the
\* selection in the child views.
ChildViewsHaveSelection ==
    LET open == Update(m, KeyMsg("enter")) IN
    /\ m.view \in {"Jobs", "Steps"} => m.selectedPipeline.ID # 0
    /\ m.view = "Steps" => m.steps.steps = m.selectedJob.Steps
    /\ (m.view = "Pipelines" /\ m.confirmAction = "") =>
          IF Len(m.list.pipelines) > 0
          THEN /\ open.m.view = "Jobs"
               /\ open.m.selectedPipeline = At(m.list.pipelines, m.list.cursor)
               /\ open.cmds = <<loadPipelineDetail(open.m.selectedPipeline.ID)>>
          ELSE open.m.view = "Pipelines" /\ open.cmds = <<>>
    /\ (m.view = "Jobs" /\ m.confirmAction = "") =>
          IF Len(m.detail.jobs) > 0
          THEN /\ open.m.view = "Steps"
               /\ open.m.selectedJob = At(m.detail.jobs, m.detail.cursor)
               /\ open.m.steps = NewStepListModel(open.m.selectedJob.Steps)
          ELSE open.m.view = "Jobs"

\* A step from the list or the prompt into Jobs, or from a view above Steps
\* into Steps, is the open key on a non-empty list.
ChildViewEntry ==
    /\ (m.view \in {"Pipelines", "ReAuth"} /\ m'.view = "Jobs") =>
          /\ m.view = "Pipelines"
          /\ Len(m.list.pipelines) > 0
          /\ m' = Update(m, KeyMsg("enter")).m
          /\ m'.selectedPipeline.ID \in detailInFlight'
    /\ (m.view \in {"Pipelines", "Jobs", "ReAuth"} /\ m'.view = "Steps") =>
          /\ m.view = "Jobs"
          /\ Len(m.detail.jobs) > 0
          /\ m' = Update(m, KeyMsg("enter")).m

\* C19: Jobs is entered only by open on a non-empty pipeline list, which
\* snapshots the pipeline under the cursor and issues GetPipeline for it, and
\* Steps only by open on a non-empty job list, which snapshots the job under
\* the cursor and its steps; in every reachable state the Jobs and Steps views
\* have a selected pipeline with a non-empty ID and the Steps view shows the
\* steps of the selected job.
C19_ChildViewsNeedParentSelection ==
    []ChildViewsHaveSelection /\ [][ChildViewEntry]_vars

\* The Steps view of a job with steps, after a refresh emptied the list.
C19_Witness ==
    /\ m.view = "Steps"
    /\ Len(m.steps.steps) > 0
    /\ m.steps.steps = m.selectedJob.Steps
    /\ m.selectedPipeline.ID # 0
    /\ Len(m.list.pipelines) = 0

\* C18: every step that changes the view while it is ReAuth leaves it equal
\* to Pipelines; none moves from ReAuth to Jobs, Steps or Logs.
C18_ReAuthExitsToPipelines ==
    [][(m.view = "ReAuth" /\ m'.view # "ReAuth") => m'.view = "Pipelines"]_vars

\* C20: whenever the confirm overlay is set the view is Pipelines or Jobs, so
\* the confirm key dispatches no rerun or cancel in the Logs, Steps or ReAuth
\* view.
C20_OverlayOnlyOnPipelinesOrJobs ==
    /\ m.confirmAction # "" => m.view \in {"Pipelines", "Jobs"}
    /\ m.view \in {"Logs", "Steps", "ReAuth"} =>
          ActionCommands(Update(m, KeyMsg("y")).cmds) = <<>>

\* The messages read between the view-logs key and the log result: a timer, the
\* back key, a list request ending with an expired session.
BetweenMsgs ==
    {tickMsg, KeyMsg("esc"), PipelinesLoadedMsg(<<>>, AuthExpiredError(ProviderName))}

\* C21: the view-logs key pressed in Jobs or Steps, any one message read before
\* the log result, the result, then back: the view is the one the key was
\* pressed in and the log content and scroll offset are cleared.
C21_BackFromLogsReturnsToRequestView ==
    LET logs == Update(m, KeyMsg("l")) IN
    (m.view \in {"Jobs", "Steps"} /\ m.confirmAction = "" /\ Issues(logs.cmds, "GetJobLogs")) =>
        \A msg \in BetweenMsgs :
            LET shown == Update(Update(logs.m, msg).m, LogsLoadedMsg(1, Nil)).m
                back == Update(shown, KeyMsg("esc")).m
            IN /\ shown.view = "Logs"
               /\ back.view = m.view
               /\ back.logContent = 0
               /\ back.logOffset = 0

\* C23: back in the Jobs view leads to Pipelines with the job list, the job
\* cursor, the selected job and the step list emptied.
C23_BackFromJobsClearsSelection ==
    (m.view = "Jobs" /\ m.confirmAction = "") =>
        LET back == Update(m, KeyMsg("esc")).m IN
        /\ back.view = "Pipelines"
        /\ back.detail = NewJobDetailModel(<<>>)
        /\ back.selectedJob = ZeroJob
        /\ back.steps = NewStepListModel(<<>>)

\* C22: the scroll offset is always in 0..(number of lines - 1); in the Logs
\* view page-down and page-up move it by the terminal height minus 4, at
\* least MinVisibleLogLines, and stop at the last line and at 0, scroll-down
\* and scroll-up move it by one within the same limits, and top and bottom
\* put it on 0 and on the last line.
C22_LogOffsetInRange ==
    LET last == SplitLen(m.logContent) - 1
        page == Max(m.height - 4, MinVisibleLogLines)
        after(k) == Update(m, KeyMsg(k)).m.logOffset
    IN /\ m.logOffset \in 0..last
       /\ (m.view = "Logs" /\ m.confirmAction = "") =>
             /\ after("pgdown") = Min(m.logOffset + page, last)
             /\ after("pgup") = Max(m.logOffset - page, 0)
             /\ after("down") = Min(m.logOffset + 1, last)
             /\ after("up") = Max(m.logOffset - 1, 0)
             /\ after("g") = 0
             /\ after("G") = last

\* A page-down that stopped at the last line of a log longer than a page, in
\* a terminal above the floor.
C22_Witness ==
    /\ m.view = "Logs"
    /\ m.height - 4 > MinVisibleLogLines
    /\ m.logContent = MaxLogLines
    /\ m.logOffset = SplitLen(m.logContent) - 1
    /\ Update(m, KeyMsg("pgup")).m.logOffset = m.logOffset - (m.height - 4)

\* The step is a token request that got the answer resp.
Answered(resp) ==
    /\ poll.pc = "do"
    /\ poll'.requests = poll.requests + 1
    /\ poll'.lastResp = resp

\* Once PollToken has returned nothing of the call changes.
PollReturned == poll.pc = "done" => poll' = poll

\* The answers that kept the call polling.
RetryAnswers(p) == p.pendings + p.slowDowns + p.empties

\* C24: a call that returns a token has made one request per answer that kept
\* it polling and one more, k + 1 after k authorization_pending answers; the
\* request answered with the token returns the token without error, and no
\* request follows the return.
C24_TokenAfterKPlusOneRequests ==
    /\ []((poll.pc = "done" /\ poll.token # "") =>
            /\ poll.token = "T"
            /\ poll.err = ""
            /\ poll.lastResp = "token"
            /\ poll.requests = RetryAnswers(poll) + 1
            /\ (poll.slowDowns = 0 /\ poll.empties = 0) =>
                  poll.requests = poll.pendings + 1)
    /\ [][/\ Answered("token") =>
               /\ poll'.pc = "done"
               /\ poll'.token = "T"
               /\ poll'.err = ""
               /\ poll'.requests = RetryAnswers(poll) + 1
          /\ PollReturned]_vars

\* Two authorization_pending answers, then the token on the third request.
C24_Witness ==
    /\ poll.pc = "done"
    /\ poll.token = "T"
    /\ poll.pendings = 2
    /\ poll.slowDowns = 0
    /\ poll.empties = 0
    /\ poll.requests = 3

\* C25: the interval is the one the call started with plus SlowDownSeconds
\* for every slow_down answer so far, and every sleep lasts that long; an
\* authorization_pending answer leaves the interval as it is, a slow_down
\* answer adds SlowDownSeconds to it, and nothing else changes it.
C25_SlowDownAddsFiveSeconds ==
    /\ [](poll.interval = poll.first + SlowDownSeconds * poll.slowDowns)
    /\ [][/\ poll'.sleeps # poll.sleeps =>
               /\ poll'.clock - poll.clock = poll.first + SlowDownSeconds * poll.slowDowns
               /\ poll'.lastSleep = poll.first + SlowDownSeconds * poll.slowDowns
          /\ Answered("authorization_pending") => poll'.interval = poll.interval
          /\ Answered("slow_down") => poll'.interval = poll.interval + SlowDownSeconds
          /\ poll'.interval # poll.interval => Answered("slow_down")]_vars

\* A sleep after two slow_down answers, ten seconds longer than the first.
C25_Witness ==
    /\ poll.first = SlowDownSeconds
    /\ poll.slowDowns = 2
    /\ poll.sleeps = 3
    /\ poll.lastSleep = poll.first + 2 * SlowDownSeconds

\* C26: a request answered expired_token, access_denied or an unrecognised
\* error code returns an error and no token at once, and no request follows.
C26_TerminalAnswersStopPolling ==
    [][/\ \A resp \in {"expired_token", "access_denied", "other"} :
            Answered(resp) =>
               /\ poll'.pc = "done"
               /\ poll'.err \in {"expired", "denied", "unexpected"}
               /\ poll'.token = ""
       /\ (poll.pc = "done" /\ poll.err # "") => poll'.requests = poll.requests]_vars

\* access_denied on the second request, after one authorization_pending.
C26_Witness ==
    /\ poll.pc = "done"
    /\ poll.lastResp = "access_denied"
    /\ poll.err = "denied"
    /\ poll.pendings = 1
    /\ poll.requests = 2

\* While a call with a deadline runs the clock has not passed the deadline, no
\* request started after it, and a return after it is an error.
PollWithinDeadline ==
    poll.hasDeadline =>
        /\ poll.pc # "done" => poll.clock <= poll.deadline
        /\ poll.requests > 0 => poll.lastRequestAt <= poll.deadline
        /\ (poll.pc = "done" /\ poll.clock > poll.deadline) =>
              (poll.err # "" /\ poll.token = "")
        /\ poll.clock <= poll.deadline + RequestSeconds

\* C27: a call whose context ends after E seconds returns, whatever the
\* server answers (authorization_pending every time included); it starts no
\* request after the deadline and a return after the deadline is an error.
C27_PollingEndsAtDeadline ==
    /\ []PollWithinDeadline
    /\ [](poll.hasDeadline => <>(poll.pc = "done"))

\* A call answered authorization_pending every time, ended by its context at
\* the deadline.
C27_Witness ==
    /\ poll.pc = "done"
    /\ poll.hasDeadline
    /\ poll.deadline = MaxExpiry
    /\ poll.clock = poll.deadline
    /\ poll.err = "ctx"
    /\ poll.requests >= 2
    /\ poll.pendings = poll.requests

\* C28: the token result of a running poll hands the provider name under
\* re-auth and the token to OnTokenRefreshed, once; it clears the provider
\* name, the device code and the banner, sets the view to Pipelines with
\* loading set, and issues ListPipelines and nothing else.
C28_TokenResultCompletesReAuth ==
    (\E i \in Flows : flow[i].pc = "request") =>
        LET r == Update(m, ReAuthCompleteMsg("T", Nil)) IN
        /\ r.cb = <<[provider |-> m.reAuthProvider, token |-> "T"]>>
        /\ r.m.reAuthProvider = ""
        /\ r.m.reAuthCode = ZeroCode
        /\ r.m.err = Nil
        /\ r.m.view = "Pipelines"
        /\ r.m.loading
        /\ r.cmds = <<loadPipelines>>

\* After a completed re-auth: the loaded list is being reloaded.
C28_Witness ==
    /\ m.view = "Pipelines"
    /\ m.loading
    /\ Len(m.list.pipelines) > 0
    /\ m.reAuthProvider = ""
    /\ m.reAuthCode = ZeroCode
    /\ m.err = Nil
    /\ listInFlight
    /\ \A i \in Flows : flow[i].pc = "idle"

\* What the cancel key does in the ReAuth view of model a.
CancelsReAuth(a) ==
    LET r == Update(a, KeyMsg("esc")) IN
    /\ r.m.view = "Pipelines"
    /\ r.m.err = SessionExpired(a.reAuthProvider)
    /\ r.m.reAuthProvider = ""
    /\ r.m.reAuthCode = ZeroCode
    /\ r.cmds = <<>>

AbortsReAuth(r) ==
    /\ r.m.view = "Pipelines"
    /\ r.m.err = ReAuthFailed
    /\ r.cmds = <<>>

\* C30: the error result of a running device-code request, and the error
\* result of a running poll, lead to Pipelines with the
\* re-authentication-failed banner and issue no command.
C30_DeviceFlowFailureAborts ==
    /\ (\E i \in Flows : flow[i].pc = "code") =>
          AbortsReAuth(Update(m, DeviceCodeMsg(ZeroCode, TransientErr)))
    /\ (\E i \in Flows : flow[i].pc \in {"sleep", "request"}) =>
          AbortsReAuth(Update(m, ReAuthCompleteMsg("", TransientErr)))

\* After a failed poll: the banner is up, no device flow is running.
C30_Witness ==
    /\ m.view = "Pipelines"
    /\ m.err = ReAuthFailed
    /\ m.reAuthCode # ZeroCode
    /\ \A i \in Flows : flow[i].pc = "idle"

\* C33: the list result that carries the list already shown, and the detail
\* result that carries the job list already shown, leave the model as it is,
\* the two cursors included.
C33_ResultApplicationIdempotent ==
    /\ ~m.loading =>
          Update(m, PipelinesLoadedMsg(m.list.pipelines, Nil)).m = m
    /\ Update(m, PipelineDetailMsg([ID |-> m.selectedPipeline.ID,
                                    Status |-> m.selectedPipeline.Status,
                                    Jobs |-> m.detail.jobs], Nil)).m = m

\* What a list result may do to the selection of a child view: keep the ID of
\* the selected pipeline, take its data from the entry of the same ID, and
\* keep the selected job and the step list.
Insulated(a, pipelines) ==
    LET b == Update(a, PipelinesLoadedMsg(pipelines, Nil)).m
        i == IndexOfID(pipelines, a.selectedPipeline.ID)
    IN /\ b.selectedPipeline.ID = a.selectedPipeline.ID
       /\ b.selectedPipeline = IF i >= 0 THEN At(pipelines, i) ELSE a.selectedPipeline
       /\ b.selectedJob = a.selectedJob
       /\ b.steps = a.steps
       /\ b.view = a.view

\* C35: in the Jobs, Steps and Logs views a list result, whatever list it
\* carries, keeps the ID of the selected pipeline, the selected job and the
\* step list, and replaces the data of the selected pipeline only by the
\* entry of the same ID.
C35_ChildViewsInsulatedFromRefresh ==
    (m.view \in {"Jobs", "Steps", "Logs"} /\ listInFlight) =>
        \A pipelines \in FinishedLists : Insulated(m, pipelines)

\* C37: in the ReAuth view an AuthExpiredError result of a running list or
\* detail command issues no RequestCode and leaves the device code shown as
\* it is, so that one device flow runs at a time.
C37_OneDeviceFlowAtATime ==
    LET e == AuthExpiredError(ProviderName)
        again(msg) == LET r == Update(m, msg) IN
                      /\ ~Issues(r.cmds, "RequestCode")
                      /\ ~Issues(r.cmds, "PollToken")
                      /\ r.m.reAuthCode = m.reAuthCode
    IN m.view = "ReAuth" =>
          /\ listInFlight => again(PipelinesLoadedMsg(<<>>, e))
          /\ \A id \in detailInFlight : again(PipelineDetailMsg(ZeroPipeline, e))

\* C38: in the Pipelines view with a non-empty list the selected pipeline has
\* the ID of the pipeline under the cursor.
C38_SelectionFollowsCursor ==
    (m.view = "Pipelines" /\ Len(m.list.pipelines) > 0) =>
        m.selectedPipeline.ID = At(m.list.pipelines, m.list.cursor).ID

\* C36: when the token endpoint answers the refresh and saving the config
\* fails, the decorated call hands the new token to updateToken, retries the
\* call and returns what the retry returns, never an AuthExpiredError.
C36_RefreshSurvivesSaveFailure ==
    (/\ rp.pc = "done"
     /\ IsUnauthorized(rp.first.err)
     /\ rp.tm.refreshToken # "" /\ rp.tm.endpoint = Nil
     /\ rp.tm.configPath # "" /\ rp.tm.save # Nil) =>
        /\ \E i \in 1..Len(rp.out.calls) : rp.out.calls[i] = Call("updateToken", "new-token")
        /\ rp.out.calls[Len(rp.out.calls)] = Call("inner", "")
        /\ Len(rp.out.calls) = 4
        /\ rp.out.err = rp.retry.err
        /\ ~IsAuthExpired(rp.out.err)

\* The model after a transient error: the banner is set and nothing else
\* changes, and no command is returned.
BannerOnly(a, r) == r = Ret([a EXCEPT !.err = TransientErr], <<>>)

\* C31: a transient error in a list, detail, rerun or cancel result sets the
\* error banner and returns no command; view, pipeline list and cursor,
\* selected pipeline, job list and step list stay as they are (the list
\* result also ends the loading state).
C31_TransientErrorSetsBannerOnly ==
    /\ BannerOnly([m EXCEPT !.loading = FALSE],
                  Update(m, PipelinesLoadedMsg(<<>>, TransientErr)))
    /\ BannerOnly(m, Update(m, PipelineDetailMsg(ZeroOf("GetPipeline"), TransientErr)))
    /\ \A action \in {"rerun", "cancel"} :
          BannerOnly(m, Update(m, actionResultMsg(action, TransientErr)))

C31_Witness ==
    /\ m.err = TransientErr
    /\ m.view = "Steps"
    /\ m.list.cursor > 0
    /\ Len(m.detail.jobs) > 0
    /\ Len(m.steps.steps) > 0
    /\ actionInFlight # {}

DataDetails ==
    UNION { { [ID |-> id, Status |-> st, Jobs |-> js] :
                st \in Statuses, js \in DataJobLists(id) } : id \in PipelineIDs }

Commute(a, pipelines, pipeline) ==
    LET l == Update(a, PipelinesLoadedMsg(pipelines, Nil))
        d == Update(a, PipelineDetailMsg(pipeline, Nil))
        ld == Update(l.m, PipelineDetailMsg(pipeline, Nil))
        dl == Update(d.m, PipelinesLoadedMsg(pipelines, Nil))
    IN /\ ld.m = dl.m
       /\ l.cmds = <<>> /\ d.cmds = <<>> /\ ld.cmds = <<>> /\ dl.cmds = <<>>
       /\ l.m.detail = a.detail
       /\ d.m.list = a.list
       /\ d.m.selectedPipeline = a.selectedPipeline

\* C32: a successful list result and a successful detail result commute:
\* applied in either order they give the same model; the list result leaves
\* the job list and its cursor alone, the detail result the pipeline list,
\* its cursor and the selected pipeline.
C32_ListAndDetailCommute ==
    \A pipelines \in DataLists, pipeline \in DataDetails : Commute(m, pipelines, pipeline)

C32_Witness ==
    /\ listInFlight
    /\ detailInFlight # {}
    /\ m.list.cursor > 0
    /\ m.detail.cursor > 0

\* Every index the handlers and the views read is inside its list: the three
\* cursors, and the bounds of the slice of log lines.
IndicesInBounds(a) ==
    /\ a.view \in Views
    /\ InRange(a.list.cursor, Len(a.list.pipelines))
    /\ InRange(a.detail.cursor, Len(a.detail.jobs))
    /\ InRange(a.steps.cursor, Len(a.steps.steps))
    /\ 0 <= renderLogViewStart(a)
    /\ renderLogViewStart(a) <= renderLogViewEnd(a)
    /\ renderLogViewEnd(a) <= SplitLen(a.logContent)

\* C34: in every state reached by keys, ticks and results, over lists that
\* are empty or shrink, the indices read from the pipeline list, the job
\* list, the step list and the log lines are in bounds, and every error
\* result, transient or auth-expired, gives a state where they are.
C34_IndicesInBounds ==
    /\ IndicesInBounds(m)
    /\ \A k \in Keys : IndicesInBounds(Update(m, KeyMsg(k)).m)
    /\ \A e \in {TransientErr, AuthExpiredError(ProviderName)} :
          /\ IndicesInBounds(Update(m, PipelinesLoadedMsg(<<>>, e)).m)
          /\ IndicesInBounds(Update(m, PipelineDetailMsg(ZeroOf("GetPipeline"), e)).m)
          /\ IndicesInBounds(Update(m, LogsLoadedMsg(0, e)).m)
          /\ \A action \in {"rerun", "cancel"} :
                IndicesInBounds(Update(m, actionResultMsg(action, e)).m)

\* The list and the job list have both shrunk under a cursor that was past
\* their new end, and the log is open past its first line.
C34_Witness ==
    /\ m.view = "Logs"
    /\ m.logOffset > 0
    /\ m.err = TransientErr
    /\ Len(m.list.pipelines) = 0
    /\ Len(m.detail.jobs) = 0
    /\ Len(m.steps.steps) > 0

\* While a flag is set its command is running, and the view-logs key starts
\* no second log fetch while the first is running.
LoadingHasACommand ==
    /\ m.loading => listInFlight
    /\ m.logLoading => logsInFlight
    /\ m.logLoading =>
          /\ ~Issues(Update(m, KeyMsg("l")).cmds, "GetJobLogs")
          /\ Update(m, KeyMsg("l")).m.logLoading

\* C39: when every command that was started delivers its result, a loading
\* flag that is set, for pipelines or for logs, is cleared later, whether
\* the result is a success, a transient error or an auth-expired error; and
\* while the log flag is set the view-logs key issues no second log fetch.
C39_LoadingEnds ==
    /\ []LoadingHasACommand
    /\ m.loading ~> ~m.loading
    /\ m.logLoading ~> ~m.logLoading

\* A refresh by hand and a log fetch are both pending after an error was
\* shown.
C39_Witness ==
    /\ m.loading
    /\ m.logLoading
    /\ m.err = TransientErr
    /\ m.view = "Jobs"

====
